---------------------------- MODULE Spec2Model ----------------------------
(***************************************************************************)
(* A model of the lingo / quantum_config configuration aggregation         *)
(* pipeline: type coercion of raw strings, nested-key insertion, the       *)
(* environment provider, the file provider, the CLI provider and the       *)
(* Figment merge fold of the derive-generated load().                      *)
(*                                                                         *)
(* Strings are sequences of one-character strings, so that prefix tests,   *)
(* lower-casing, splitting on a separator and numeric parsing are computed *)
(* character by character as the Rust code computes them.                  *)
(***************************************************************************)
EXTENDS Integers, Sequences, FiniteSets, TLC

VARIABLES
    pc,                 \* position of the operation under way
    input,              \* coercion: the raw string handed to parse_*_value
    out,                \* coercion: the Value returned
    who,                \* insertion: the provider whose tree is being built
    map,                \* insertion: the provider tree being built
    last,               \* insertion: the latest call and its result
    count,              \* insertion: number of calls made so far
    provider,           \* environment provider: its settings
    environ,            \* the process environment, name -> value
    env_order,          \* the order in which env::vars() was enumerated
    env_result,         \* the Result of read_env_vars
    fig,                \* the Figment: Ok(merged tree) or Err(errors)
    merged,             \* merge fold: the latest merge, [existing, incoming]
    fs,                 \* load: the file system, directories and files
    args,               \* load: the command line
    clap_matches,       \* load: the ArgMatches parsed from the command line
    config_file_paths,  \* load: Vec<ConfigFilePath>, lowest priority first
    result,             \* load: the Result returned by load_with_args
    cli,                \* CLI provider: its ArgMatches, mapping and separator
    cli_result,         \* CLI provider: the Result of read_clap_args
    cli_query,          \* CLI provider: the latest get_arg_values call and its Result
    file_provider,      \* file provider: its path, format, is_required, max_parse_depth
    file_result,        \* file provider: the Result of read_and_parse
    message,            \* file provider: the error of the Result as displayed, and the build
    specified,          \* paths: the path handed to add_specified_config_file
    fs_calls            \* the calls made to the file system, in order

coerceVars == <<input, out>>
insertVars == <<who, map, last, count>>
envVars == <<provider, environ, env_order, env_result>>
mergeVars == <<fig, merged>>
loadVars == <<fs, args, clap_matches, config_file_paths, result>>
clapVars == <<cli, cli_result, cli_query>>
fileVars == <<file_provider, file_result, message>>
pathVars == <<specified, fs_calls>>
vars == <<pc, input, out, who, map, last, count,
          provider, environ, env_order, env_result,
          fig, merged, fs, args, clap_matches, config_file_paths, result,
          cli, cli_result, cli_query, file_provider, file_result, message, specified, fs_calls>>

None == [tag |-> "None"]
\* Option: Some(x), or None
Some(x) == [tag |-> "Some", v |-> x]

(***************************************************************************)
(* Characters and strings                                                  *)
(***************************************************************************)
Upper == <<"A","B","C","D","E","F","G","H","I","J","K","L","M",
           "N","O","P","Q","R","S","T","U","V","W","X","Y","Z">>
Lower == <<"a","b","c","d","e","f","g","h","i","j","k","l","m",
           "n","o","p","q","r","s","t","u","v","w","x","y","z">>
Digits == <<"0","1","2","3","4","5","6","7","8","9">>

\* the lower-case letter of every ASCII upper-case letter
LowerOf == [c \in {Upper[i] : i \in 1..26} |-> Lower[CHOOSE i \in 1..26 : Upper[i] = c]]

\* char::to_lowercase, on the ASCII range
ToLowerChar(c) == IF c \in DOMAIN LowerOf THEN LowerOf[c] ELSE c

\* str::to_lowercase
to_lowercase(s) == [i \in 1..Len(s) |-> ToLowerChar(s[i])]

\* dec2flt parse_inf_nan: the text has the length of the word and its letters,
\* in either case
eq_ignore_case(s, word) == Len(s) = Len(word) /\ to_lowercase(s) = word

\* the value of every decimal digit
ValueOf == [c \in {Digits[i] : i \in 1..10} |-> (CHOOSE i \in 1..10 : Digits[i] = c) - 1]

IsDigit(c) == c \in DOMAIN ValueOf
DigitVal(c) == ValueOf[c]
AllDigits(s) == \A i \in 1..Len(s) : IsDigit(s[i])
DigitSeq(s) == [i \in 1..Len(s) |-> DigitVal(s[i])]

Drop(s, n) == SubSeq(s, n + 1, Len(s))
Take(s, n) == SubSeq(s, 1, n)

\* str::starts_with
starts_with(s, p) == Len(p) <= Len(s) /\ Take(s, Len(p)) = p

\* number of leading zeros of a digit sequence
RECURSIVE LeadingZeros(_)
LeadingZeros(d) ==
    IF d = <<>> \/ d[1] # 0 THEN 0 ELSE 1 + LeadingZeros(Tail(d))

\* a digit sequence without its leading zeros (zero is the empty sequence)
Magnitude(d) == Drop(d, LeadingZeros(d))

\* m <= n for magnitudes (digit sequences without leading zeros), any width
RECURSIVE LexLeq(_, _)
LexLeq(m, n) ==
    IF m = <<>> THEN TRUE
    ELSE IF m[1] # n[1] THEN m[1] < n[1]
    ELSE LexLeq(Tail(m), Tail(n))

MagLeq(m, n) ==
    IF Len(m) # Len(n) THEN Len(m) < Len(n) ELSE LexLeq(m, n)

\* i64::MAX = 9223372036854775807, -(i64::MIN) = 9223372036854775808,
\* u64::MAX = 18446744073709551615, as magnitudes
I64MaxMag == <<9,2,2,3,3,7,2,0,3,6,8,5,4,7,7,5,8,0,7>>
I64MinMag == <<9,2,2,3,3,7,2,0,3,6,8,5,4,7,7,5,8,0,8>>
U64MaxMag == <<1,8,4,4,6,7,4,4,0,7,3,7,0,9,5,5,1,6,1,5>>

(***************************************************************************)
(* Values (figment::value::Value).  Every Value is a record [tag, v].      *)
(*   Bool   v \in BOOLEAN                                                  *)
(*   Int    v = [neg, mag]   Num::I64, sign and magnitude                  *)
(*   UInt   v = [neg, mag]   Num::U64                                      *)
(*   Float  v = [kind, neg, mag, exp]   Num::F64, as the decimal value     *)
(*          mag * 10^exp read from the text (kind "num"), or inf / nan     *)
(*   String v = the characters                                             *)
(*   Array  v = sequence of Values                                         *)
(*   Dict   v = function from keys (strings) to Values                     *)
(***************************************************************************)
VBool(b) == [tag |-> "Bool", v |-> b]
VInt(neg, mag) == [tag |-> "Int", v |-> [neg |-> neg /\ mag # <<>>, mag |-> mag]]
VUInt(mag) == [tag |-> "UInt", v |-> [neg |-> FALSE, mag |-> mag]]
VFloat(kind, neg, mag, exp) ==
    [tag |-> "Float", v |-> [kind |-> kind, neg |-> neg, mag |-> mag, exp |-> exp]]
VString(s) == [tag |-> "String", v |-> s]
VArray(a) == [tag |-> "Array", v |-> a]
VDict(d) == [tag |-> "Dict", v |-> d]

EmptyMap == [k \in {} |-> None]
IsDict(x) == x.tag = "Dict"

(***************************************************************************)
(* str::parse::<i64>, str::parse::<u64>, str::parse::<f64>                 *)
(* Each returns [ok |-> FALSE] or [ok |-> TRUE, ...].                      *)
(***************************************************************************)
Fail == [ok |-> FALSE]

\* core::num from_str_radix: one or more digits, and the value within the
\* range of the type
ParseDigits(neg, body, limit) ==
    IF body = <<>> \/ ~AllDigits(body) THEN Fail
    ELSE IF MagLeq(Magnitude(DigitSeq(body)), limit)
         THEN [ok |-> TRUE, neg |-> neg, mag |-> Magnitude(DigitSeq(body))]
         ELSE Fail

\* for a signed type: an optional "+" or "-" first
parse_i64(s) ==
    IF s = <<>> THEN Fail
    ELSE IF s[1] = "-" THEN ParseDigits(TRUE, Tail(s), I64MinMag)
    ELSE IF s[1] = "+" THEN ParseDigits(FALSE, Tail(s), I64MaxMag)
    ELSE ParseDigits(FALSE, s, I64MaxMag)

\* for an unsigned type: only "+" is accepted as a sign
parse_u64(s) ==
    IF s = <<>> THEN Fail
    ELSE IF s[1] = "+" THEN ParseDigits(FALSE, Tail(s), U64MaxMag)
    ELSE ParseDigits(FALSE, s, U64MaxMag)

\* length of the longest prefix of s made of digits
RECURSIVE DigitRun(_)
DigitRun(s) ==
    IF s = <<>> \/ ~IsDigit(s[1]) THEN 0 ELSE 1 + DigitRun(Tail(s))

\* value of a digit sequence (used for exponents only)
RECURSIVE NatOf(_)
NatOf(d) == IF d = <<>> THEN 0 ELSE NatOf(Take(d, Len(d) - 1)) * 10 + d[Len(d)]

\* number of trailing zeros of a digit sequence
RECURSIVE TrailingZeros(_)
TrailingZeros(d) ==
    IF d = <<>> \/ d[Len(d)] # 0 THEN 0
    ELSE 1 + TrailingZeros(Take(d, Len(d) - 1))

\* core::num::dec2flt: Sign? ( inf | infinity | nan | Number ), with
\* Number = ( Digit+ | Digit+ . Digit* | Digit* . Digit+ ) ( e Sign? Digit+ )?
\* The scan is written as one operator per stage of the grammar.

\* the decimal value intD.fracD * 10^e as magnitude and exponent, without
\* leading or trailing zeros
F64Norm(neg, stripped, e10) ==
    IF Len(stripped) = TrailingZeros(stripped)
    THEN [ok |-> TRUE, kind |-> "num", neg |-> neg, mag |-> <<>>, exp |-> 0]
    ELSE [ok |-> TRUE, kind |-> "num", neg |-> neg,
          mag |-> Take(stripped, Len(stripped) - TrailingZeros(stripped)),
          exp |-> e10 + TrailingZeros(stripped)]

F64Value(neg, intD, fracD, e) ==
    F64Norm(neg, Magnitude(DigitSeq(intD \o fracD)), e - Len(fracD))

\* Sign? Digit+ after the exponent letter
F64ExpDigits(neg, intD, fracD, expNeg, expBody) ==
    IF expBody = <<>> \/ ~AllDigits(expBody) THEN Fail
    ELSE F64Value(neg, intD, fracD,
                  IF expNeg THEN 0 - NatOf(DigitSeq(expBody))
                            ELSE NatOf(DigitSeq(expBody)))

\* what follows the digits: nothing, or an exponent
F64Exp(neg, intD, fracD, rest) ==
    IF Len(intD) + Len(fracD) = 0 THEN Fail
    ELSE IF rest = <<>> THEN F64Value(neg, intD, fracD, 0)
    ELSE IF rest[1] \notin {"e", "E"} THEN Fail
    ELSE IF Len(rest) > 1 /\ rest[2] \in {"+", "-"}
         THEN F64ExpDigits(neg, intD, fracD, rest[2] = "-", Drop(rest, 2))
         ELSE F64ExpDigits(neg, intD, fracD, FALSE, Tail(rest))

\* what follows the integer digits: a fraction, or the rest
F64Frac(neg, intD, rest) ==
    IF rest # <<>> /\ rest[1] = "."
    THEN F64Exp(neg, intD, Take(Tail(rest), DigitRun(Tail(rest))),
                Drop(Tail(rest), DigitRun(Tail(rest))))
    ELSE F64Exp(neg, intD, <<>>, rest)

F64Unsigned(neg, body) ==
    IF eq_ignore_case(body, <<"i","n","f">>)
          \/ eq_ignore_case(body, <<"i","n","f","i","n","i","t","y">>)
    THEN [ok |-> TRUE, kind |-> "inf", neg |-> neg, mag |-> <<>>, exp |-> 0]
    ELSE IF eq_ignore_case(body, <<"n","a","n">>)
    THEN [ok |-> TRUE, kind |-> "nan", neg |-> neg, mag |-> <<>>, exp |-> 0]
    ELSE F64Frac(neg, Take(body, DigitRun(body)), Drop(body, DigitRun(body)))

parse_f64(s) ==
    IF s = <<>> THEN Fail
    ELSE IF s[1] \in {"+", "-"} THEN F64Unsigned(s[1] = "-", Tail(s))
    ELSE F64Unsigned(FALSE, s)

(***************************************************************************)
(* Type coercion                                                           *)
(***************************************************************************)
TrueLiterals  == {<<"t","r","u","e">>, <<"1">>, <<"y","e","s">>, <<"o","n">>}
FalseLiterals == {<<"f","a","l","s","e">>, <<"0">>, <<"n","o">>, <<"o","f","f">>}

NumI64(r) == VInt(r.neg, r.mag)
NumU64(r) == VUInt(r.mag)
NumF64(r) == VFloat(r.kind, r.neg, r.mag, r.exp)

\* the trial sequence shared by parse_env_value and parse_arg_value
CoerceWith(lowered, value) ==
    IF lowered \in TrueLiterals THEN VBool(TRUE)
    ELSE IF lowered \in FalseLiterals THEN VBool(FALSE)
    ELSE IF parse_i64(value).ok THEN NumI64(parse_i64(value))
    ELSE IF parse_u64(value).ok THEN NumU64(parse_u64(value))
    ELSE IF parse_f64(value).ok THEN NumF64(parse_f64(value))
    ELSE VString(value)

\* parse_env_value with the boolean literals matched case-sensitively
parse_env_value_CaseSensitive(value) == CoerceWith(value, value)

\* QuantumConfigEnvProvider::parse_env_value (always Ok)
parse_env_value(value) == CoerceWith(to_lowercase(value), value)

\* parse_arg_value with the float trial placed before the integer trials
parse_arg_value_FloatFirst(value) ==
    IF to_lowercase(value) \in TrueLiterals THEN VBool(TRUE)
    ELSE IF to_lowercase(value) \in FalseLiterals THEN VBool(FALSE)
    ELSE IF parse_f64(value).ok THEN NumF64(parse_f64(value))
    ELSE CoerceWith(to_lowercase(value), value)

\* LingoClapProvider::parse_arg_value (always Ok)
parse_arg_value(value) == CoerceWith(to_lowercase(value), value)

(***************************************************************************)
(* Coercion as a state machine: a raw string is drawn, then handed to the  *)
(* environment provider's or the CLI provider's coercion.                  *)
(***************************************************************************)
MaxRawLen == 2

RawAlphabet == {"0", "1", "9", "-", "+", ".", "e", "n", "o", "N", "O", " "}

SeqsUpTo(S, n) == UNION {[1..k -> S] : k \in 0..n}

\* raw strings longer than MaxRawLen: the literals of the unit tests, the
\* 64-bit boundaries, float spellings, and near misses
LongRawStrings == {
    <<"t","r","u","e">>,
    <<"T","R","U","E">>,
    <<"T","r","u","e">>,
    <<"t","R","u","E">>,
    <<"f","a","l","s","e">>,
    <<"F","A","L","S","E">>,
    <<"y","e","s">>,
    <<"Y","E","S">>,
    <<"Y","e","s">>,
    <<"o","f","f">>,
    <<"O","F","F">>,
    <<"O","f","f">>,
    <<"4","2">>,
    <<"-","4","2">>,
    <<"+","7">>,
    <<"0","0","7">>,
    <<"-","0">>,
    <<"3",".","1","4">>,
    <<"-","2",".","5","0">>,
    <<"1","e","1","0">>,
    <<"1",".","5","E","-","3">>,
    <<"5",".">>,
    <<".","5">>,
    <<"1","e">>,
    <<"1","e","+">>,
    <<"e","5">>,
    <<"h","e","l","l","o"," ","w","o","r","l","d">>,
    <<" ","4","2">>,
    <<"4","2"," ">>,
    <<"t","r","u","e"," ">>,
    <<" ","y","e","s">>,
    <<"0","x","1","0">>,
    <<"1","_","0","0","0">>,
    <<"1",",","5">>,
    <<"-","-","1">>,
    <<"1",".","2",".","3">>,
    <<"i","n","f">>,
    <<"-","i","n","f">>,
    <<"+","I","n","f","i","n","i","t","y">>,
    <<"N","a","N">>,
    <<"n","a","n">>,
    <<"i","n","f","i","n","i","t">>,
    <<"9","2","2","3","3","7","2","0","3","6","8","5","4","7","7","5","8","0","7">>,
    <<"9","2","2","3","3","7","2","0","3","6","8","5","4","7","7","5","8","0","8">>,
    <<"-","9","2","2","3","3","7","2","0","3","6","8","5","4","7","7","5","8","0","8">>,
    <<"-","9","2","2","3","3","7","2","0","3","6","8","5","4","7","7","5","8","0","9">>,
    <<"1","8","4","4","6","7","4","4","0","7","3","7","0","9","5","5","1","6","1","5">>,
    <<"1","8","4","4","6","7","4","4","0","7","3","7","0","9","5","5","1","6","1","6">>,
    <<"+","1","8","4","4","6","7","4","4","0","7","3","7","0","9","5","5","1","6","1","5">>,
    <<"-","1","8","4","4","6","7","4","4","0","7","3","7","0","9","5","5","1","6","1","5">>,
    <<"0","0","0","0","0","0","0","0","0","0","0","0","0","0","0","0","0","0","0","0","0","4","2">>,
    <<"9","9","9","9","9","9","9","9","9","9","9","9","9","9","9","9","9","9","9","9">>
}

RawStrings == SeqsUpTo(RawAlphabet, MaxRawLen) \cup LongRawStrings

CoerceIdle == input = <<>> /\ out = None
InsertIdle == who = "none" /\ map = EmptyMap /\ last = None /\ count = 0
EnvIdle ==
    provider = None /\ environ = EmptyMap /\ env_order = <<>> /\ env_result = None
MergeIdle == fig = None /\ merged = None
LoadIdle ==
    /\ fs = None /\ args = None /\ clap_matches = None
    /\ config_file_paths = <<>> /\ result = None
ClapIdle == cli = None /\ cli_result = None /\ cli_query = None
FileIdle == file_provider = None /\ file_result = None /\ message = None
PathIdle == specified = None /\ fs_calls = <<>>

InitCoerce ==
    /\ pc = "raw"
    /\ input \in RawStrings
    /\ out = None
    /\ InsertIdle
    /\ EnvIdle
    /\ MergeIdle
    /\ LoadIdle
    /\ ClapIdle /\ FileIdle /\ PathIdle

\* provider.parse_env_value(input)
ParseEnvValue ==
    /\ pc = "raw"
    /\ out' = parse_env_value(input)
    /\ pc' = "env_value"
    /\ UNCHANGED <<input, insertVars, clapVars, fileVars, pathVars, envVars, mergeVars, loadVars>>

\* provider.parse_arg_value(input)
ParseArgValue ==
    /\ pc = "raw"
    /\ out' = parse_arg_value(input)
    /\ pc' = "arg_value"
    /\ UNCHANGED <<input, insertVars, clapVars, fileVars, pathVars, envVars, mergeVars, loadVars>>

NextCoerce == ParseEnvValue \/ ParseArgValue

SpecCoerce == InitCoerce /\ [][NextCoerce]_vars

Coerced == pc \in {"env_value", "arg_value"}

(***************************************************************************)
(* Claims about coercion (checked under SpecCoerce)                        *)
(***************************************************************************)
\* s and t are equal ignoring ASCII case
EqIgnoreCase(s, t) ==
    /\ Len(s) = Len(t)
    /\ \A i \in 1..Len(s) : ToLowerChar(s[i]) = ToLowerChar(t[i])

IsTrueLiteral(s) == \E l \in TrueLiterals : EqIgnoreCase(s, l)
IsFalseLiteral(s) == \E l \in FalseLiterals : EqIgnoreCase(s, l)

\* C6: the boolean rule is applied first: every string equal, ignoring case,
\* to true/1/yes/on is coerced to Bool(true), every string equal to
\* false/0/no/off to Bool(false); "0" and "1" never come back as integers.
C6_BooleanFirst ==
    Coerced =>
        /\ IsTrueLiteral(input) => out = VBool(TRUE)
        /\ IsFalseLiteral(input) => out = VBool(FALSE)
        /\ input \in {<<"0">>, <<"1">>} => out.tag \notin {"Int", "UInt", "Float"}

C6_Witness ==
    /\ pc = "env_value"
    /\ input = <<"Y","E","S">>
    /\ out = VBool(TRUE)

\* C7: for a string that is no boolean literal the trials run in strict order,
\* first success wins: i64, then u64 (reached only above i64::MAX), then f64,
\* else String equal to the input character for character; coercion always
\* returns a value.
C7_TrialOrder ==
    (Coerced /\ ~IsTrueLiteral(input) /\ ~IsFalseLiteral(input)) =>
        /\ out.tag \in {"Int", "UInt", "Float", "String"}
        /\ parse_i64(input).ok =>
              out = VInt(parse_i64(input).neg, parse_i64(input).mag)
        /\ (~parse_i64(input).ok /\ parse_u64(input).ok) =>
              /\ out = VUInt(parse_u64(input).mag)
              /\ ~MagLeq(out.v.mag, I64MaxMag)
        /\ (~parse_i64(input).ok /\ ~parse_u64(input).ok /\ parse_f64(input).ok) =>
              out.tag = "Float"
        /\ (~parse_i64(input).ok /\ ~parse_u64(input).ok /\ ~parse_f64(input).ok) =>
              out = VString(input)
        /\ out.tag = "String" => out.v = input
        /\ input = <<"4","2">> => out = VInt(FALSE, <<4, 2>>)
        /\ input = <<"3",".","1","4">> => out = VFloat("num", FALSE, <<3, 1, 4>>, 0 - 2)
        /\ input = <<"9","2","2","3","3","7","2","0","3","6","8","5","4","7","7","5","8","0","8">> => out = VUInt(I64MinMag)
        /\ input = <<"9","9","9","9","9","9","9","9","9","9","9","9","9","9","9","9","9","9","9","9">> => out.tag = "Float"
        /\ input = <<" ","4","2">> => out = VString(input)
        /\ input = <<"t","r","u","e"," ">> => out = VString(input)

C7_Witness ==
    /\ pc = "arg_value"
    /\ input = <<"1","8","4","4","6","7","4","4","0","7","3","7","0","9","5","5","1","6","1","5">>
    /\ out = VUInt(U64MaxMag)

(***************************************************************************)
(* Results and errors (QuantumConfigError / LingoError)                    *)
(***************************************************************************)
Ok(x) == [ok |-> TRUE, val |-> x]
Err(e) == [ok |-> FALSE, err |-> e]
Error(kind, msg, at) == [kind |-> kind, msg |-> msg, at |-> at]

(***************************************************************************)
(* Nested-key insertion                                                    *)
(***************************************************************************)
\* Map::insert: the entry at k is set, replacing whatever was there
MapInsert(m, k, x) == [y \in DOMAIN m \cup {k} |-> IF y = k THEN x ELSE m[y]]

\* positions at which sep occurs in s
MatchAt(s, sep, i) == i + Len(sep) - 1 <= Len(s) /\ SubSeq(s, i, i + Len(sep) - 1) = sep

\* the first position at which sep occurs in s, or 0
FirstMatch(s, sep) ==
    IF \E i \in 1..Len(s) : MatchAt(s, sep, i)
    THEN CHOOSE j \in 1..Len(s) :
             /\ MatchAt(s, sep, j)
             /\ \A k \in 1..(j - 1) : ~MatchAt(s, sep, k)
    ELSE 0

\* str::split(sep).collect(): leftmost, non-overlapping occurrences of a
\* non-empty separator; never empty
RECURSIVE split(_, _)
RECURSIVE SplitAt(_, _, _)
SplitAt(s, sep, i) ==
    IF i = 0 THEN <<s>>
    ELSE <<Take(s, i - 1)>> \o split(Drop(s, i - 1 + Len(sep)), sep)

split(s, sep) == SplitAt(s, sep, FirstMatch(s, sep))

KeyConflict(who_, part) ==
    Error("Internal",
          IF who_ = "env" THEN "Environment variable key conflict"
                          ELSE "Command line argument key conflict",
          part)

\* the loop over parts[..len-1] followed by the final insert, shared by
\* the three insert functions: descend through the Dicts along the path,
\* creating the missing ones, fail at a segment that holds a non-Dict, and
\* set the last segment whatever it held
RECURSIVE InsertParts(_, _, _, _)

\* current_map = nested_map, and the nested map put back once filled
Nested(m, part, r) == IF r.ok THEN Ok(MapInsert(m, part, VDict(r.val))) ELSE r

Descend(who_, m, part, cur, rest, x) ==
    IF ~IsDict(cur) THEN Err(KeyConflict(who_, part))
    ELSE Nested(m, part, InsertParts(who_, cur.v, rest, x))

InsertParts(who_, m, parts, x) ==
    IF Len(parts) = 1 THEN Ok(MapInsert(m, parts[1], x))
    ELSE Descend(who_, m, parts[1],
                 IF parts[1] \in DOMAIN m THEN m[parts[1]] ELSE VDict(EmptyMap),
                 Tail(parts), x)

\* QuantumConfigEnvProvider::insert_nested_value(map, key, value)
env_insert_nested_value(sep, m, key, value) ==
    InsertParts("env", m, split(key, sep), parse_env_value(value))

\* LingoClapProvider::insert_nested_value_direct(map, key, value)
insert_nested_value_direct(sep, m, key, x) ==
    InsertParts("clap", m, split(key, sep), x)

\* insert_nested_value, "处理值": one value is a coerced leaf, any other
\* number of values an Array of coerced leaves
figment_value(values) ==
    IF Len(values) = 1 THEN parse_arg_value(values[1])
    ELSE VArray([i \in 1..Len(values) |-> parse_arg_value(values[i])])

\* LingoClapProvider::insert_nested_value(map, key, values)
clap_insert_nested_value(sep, m, key, values) ==
    InsertParts("clap", m, split(key, sep), figment_value(values))

\* the Value at a path of a tree, or None when the path leads nowhere
RECURSIVE Lookup(_, _)
Lookup(m, parts) ==
    IF parts = <<>> THEN VDict(m)
    ELSE IF parts[1] \notin DOMAIN m THEN None
    ELSE IF Len(parts) = 1 THEN m[parts[1]]
    ELSE IF IsDict(m[parts[1]]) THEN Lookup(m[parts[1]].v, Tail(parts))
    ELSE None

(***************************************************************************)
(* Insertion as a state machine: one provider's tree, built by a bounded   *)
(* number of insert calls, each recorded in `last`.                        *)
(***************************************************************************)
MaxInserts == 3

EnvSeparator == <<"_", "_">>      \* with_prefix: separator "__"
ClapSeparator == <<".">>          \* from_matches: separator "."

SeparatorOf(w) == IF w = "env" THEN EnvSeparator ELSE ClapSeparator

EnvInsertKeys == {
    <<"a">>,
    <<"b">>,
    <<"a","_","_","b">>,
    <<"a","_","_","b","_","_","c">>,
    <<"b","_","_","c">>
}
ClapInsertKeys == {
    <<"a">>,
    <<"b">>,
    <<"a",".","b">>,
    <<"a",".","b",".","c">>,
    <<"b",".","c">>
}
InsertRawValues == {<<"x">>, <<"7">>}
InsertValueLists == {<<<<"x">>>>, <<<<"x">>, <<"7">>>>}

Recorded(key, x, r) == [key |-> key, value |-> x, before |-> map, result |-> r]

InitInsert ==
    /\ pc = "insert"
    /\ who \in {"env", "clap"}
    /\ map = EmptyMap /\ last = None /\ count = 0
    /\ CoerceIdle
    /\ ClapIdle /\ FileIdle /\ PathIdle
    /\ EnvIdle
    /\ MergeIdle
    /\ LoadIdle

\* provider.insert_nested_value(&mut map, key, value) of the environment provider
EnvInsert ==
    /\ pc = "insert" /\ who = "env" /\ count < MaxInserts
    /\ \E key \in EnvInsertKeys, value \in InsertRawValues :
          LET r == env_insert_nested_value(EnvSeparator, map, key, value)
          IN /\ map' = IF r.ok THEN r.val ELSE map
             /\ last' = Recorded(key, parse_env_value(value), r)
    /\ count' = count + 1
    /\ UNCHANGED <<pc, who, coerceVars, clapVars, fileVars, pathVars, envVars, mergeVars, loadVars>>

\* provider.insert_nested_value(&mut map, key, values) of the CLI provider
ClapInsert ==
    /\ pc = "insert" /\ who = "clap" /\ count < MaxInserts
    /\ \E key \in ClapInsertKeys, values \in InsertValueLists :
          LET r == clap_insert_nested_value(ClapSeparator, map, key, values)
          IN /\ map' = IF r.ok THEN r.val ELSE map
             /\ last' = Recorded(key, figment_value(values), r)
    /\ count' = count + 1
    /\ UNCHANGED <<pc, who, coerceVars, clapVars, fileVars, pathVars, envVars, mergeVars, loadVars>>

\* provider.insert_nested_value_direct(&mut map, key, Value::Bool(true))
ClapInsertDirect ==
    /\ pc = "insert" /\ who = "clap" /\ count < MaxInserts
    /\ \E key \in ClapInsertKeys :
          LET r == insert_nested_value_direct(ClapSeparator, map, key, VBool(TRUE))
          IN /\ map' = IF r.ok THEN r.val ELSE map
             /\ last' = Recorded(key, VBool(TRUE), r)
    /\ count' = count + 1
    /\ UNCHANGED <<pc, who, coerceVars, clapVars, fileVars, pathVars, envVars, mergeVars, loadVars>>

NextInsert == EnvInsert \/ ClapInsert \/ ClapInsertDirect

SpecInsert == InitInsert /\ [][NextInsert]_vars

(***************************************************************************)
(* Claims about insertion (checked under SpecInsert)                       *)
(***************************************************************************)
LastParts == split(last.key, SeparatorOf(who))

HoldsLeafAt(m, parts) == Lookup(m, parts) # None /\ ~IsDict(Lookup(m, parts))
HoldsDictAt(m, parts) == IsDict(Lookup(m, parts))

\* an intermediate segment of the path held a non-Dict before the call
LeafOnTheWay ==
    \E n \in 1..(Len(LastParts) - 1) : HoldsLeafAt(last.before, Take(LastParts, n))

\* the call failed with the key-conflict error and left the tree as it was
FailedWithConflict ==
    /\ ~last.result.ok
    /\ last.result.err.kind = "Internal"
    /\ map = last.before

\* direction (a) alone: a leaf on the way to the final segment is a conflict
InsertConflictOnTheWay ==
    (last # None /\ LeafOnTheWay) => FailedWithConflict

\* C9: inserting at a nested key path fails with a key-conflict error in both
\* directions: (a) an intermediate segment already holds a non-Dict leaf,
\* (b) the final segment already holds a Dict and a leaf is inserted there,
\* or holds a leaf and a Dict is inserted there.
C9_ConflictBothDirections ==
    last # None =>
        /\ LeafOnTheWay => FailedWithConflict
        /\ (HoldsDictAt(last.before, LastParts) /\ ~IsDict(last.value))
              => FailedWithConflict
        /\ (HoldsLeafAt(last.before, LastParts) /\ IsDict(last.value))
              => FailedWithConflict

(***************************************************************************)
(* Environment provider                                                    *)
(***************************************************************************)
MaxKeyLen == 256        \* validate_env_key: key.len() > 256
MaxValueLen == 8192     \* validate_env_value: value.len() > 8192

NUL == "\\0"
LF == "\n"
CR == "\r"

Contains(s, c) == \E i \in 1..Len(s) : s[i] = c

ValidationError(msg) == Error("ValidationError", msg, <<>>)

\* QuantumConfigEnvProvider::validate_env_key
validate_env_key(key) ==
    IF Len(key) > MaxKeyLen
    THEN Err(ValidationError("Environment variable key too long"))
    ELSE IF Contains(key, NUL) \/ Contains(key, LF) \/ Contains(key, CR)
    THEN Err(ValidationError("Environment variable key contains invalid characters"))
    ELSE Ok(<<>>)

\* validate_env_value rejecting a value of exactly the maximum length
validate_env_value_Inclusive(value) ==
    IF Len(value) >= MaxValueLen
    THEN Err(ValidationError("Environment variable value too long"))
    ELSE IF Contains(value, NUL)
    THEN Err(ValidationError("Environment variable value contains null bytes"))
    ELSE Ok(<<>>)

\* QuantumConfigEnvProvider::validate_env_value
validate_env_value(value) ==
    IF Len(value) > MaxValueLen
    THEN Err(ValidationError("Environment variable value too long"))
    ELSE IF Contains(value, NUL)
    THEN Err(ValidationError("Environment variable value contains null bytes"))
    ELSE Ok(<<>>)

\* QuantumConfigEnvProvider::new / with_prefix
EnvProvider(prefix, separator, ignore_empty, lowercase_keys) ==
    [prefix |-> prefix, separator |-> separator,
     ignore_empty |-> ignore_empty, lowercase_keys |-> lowercase_keys]

with_prefix(prefix) == EnvProvider(prefix, EnvSeparator, TRUE, TRUE)

\* processed_key without the lower-casing
processed_key_AsWritten(p, key) == Drop(key, Len(p.prefix))

\* "处理键名": the name without the prefix, lower-cased if asked
processed_key(p, key) ==
    IF p.lowercase_keys THEN to_lowercase(Drop(key, Len(p.prefix)))
    ELSE Drop(key, Len(p.prefix))

\* the loop body without the skip of empty values
ReadStep_KeepEmpty(p, r, key, value) ==
    IF ~r.ok THEN r
    ELSE IF ~validate_env_key(key).ok THEN validate_env_key(key)
    ELSE IF ~validate_env_value(value).ok THEN validate_env_value(value)
    ELSE IF ~starts_with(key, p.prefix) THEN r
    ELSE env_insert_nested_value(p.separator, r.val, processed_key(p, key), value)

\* one iteration of the loop of read_env_vars, r the map built so far; an Err
\* is what `?` returned from an earlier iteration
ReadStep(p, r, key, value) ==
    IF ~r.ok THEN r
    ELSE IF ~validate_env_key(key).ok THEN validate_env_key(key)
    ELSE IF ~validate_env_value(value).ok THEN validate_env_value(value)
    ELSE IF ~starts_with(key, p.prefix) THEN r
    ELSE IF p.ignore_empty /\ value = <<>> THEN r
    ELSE env_insert_nested_value(p.separator, r.val, processed_key(p, key), value)

RECURSIVE ReadLoop(_, _, _, _)
ReadLoop(p, env, order, r) ==
    IF order = <<>> THEN r
    ELSE ReadLoop(p, env, Tail(order), ReadStep(p, r, order[1], env[order[1]]))

\* QuantumConfigEnvProvider::read_env_vars, the HashMap of env::vars()
\* iterated in `order`
read_env_vars(p, env, order) == ReadLoop(p, env, order, Ok(EmptyMap))

\* the orders in which a HashMap with the keys S can be iterated
Orders(S) ==
    {o \in [1..Cardinality(S) -> S] : \A i, j \in 1..Cardinality(S) : o[i] = o[j] => i = j}

(***************************************************************************)
(* The environment provider as a state machine: an environment is drawn,   *)
(* then read once, in some iteration order of the HashMap.                 *)
(***************************************************************************)
MaxEnvVars == 3

AppPrefix == <<"A","P","P","_">>

Pad(s, c, n) == s \o [i \in 1..n |-> c]

Key256 == Pad(AppPrefix, "K", MaxKeyLen - Len(AppPrefix))
Key257 == Pad(AppPrefix, "K", MaxKeyLen - Len(AppPrefix) + 1)
Value8192 == Pad(<<>>, "v", MaxValueLen)
Value8193 == Pad(<<>>, "v", MaxValueLen + 1)

\* the variables an environment of the model is made of: <<name, value>>
EnvPool == {
    <<<<"A","P","P","_","A">>, <<"7">>>>,
    <<<<"A","P","P","_","a">>, <<"o","n">>>>,
    <<<<"A","P","P","_","A","_","_","B","_","_","C">>, <<"3",".","1","4">>>>,
    <<<<"A","P","P","_","E">>, <<>> >>,
    <<<<"O","T","H","E","R">>, <<"z">>>>,
    <<<<"O","T","H","E","R","_","B","A","D">>, <<"z", NUL>> >>,
    <<Key256, <<"k">> >>,
    <<Key257, <<"k">> >>,
    <<<<"A","P","P","_","V">>, Value8192>>,
    <<<<"A","P","P","_","W">>, Value8193>>,
    <<<<"A","P","P","_","N">>, <<"a", NUL, "b">> >>,
    <<<<"A","P","P","_","L",LF>>, <<"x">> >>,
    <<<<"A","P","P","_","R",CR>>, <<"x">> >>,
    <<<<"A","P","P","_","Z",NUL>>, <<"x">> >>
}

\* the environments of at most n variables
RECURSIVE Environments(_)
Environments(n) ==
    IF n = 0 THEN {EmptyMap}
    ELSE Environments(n - 1) \cup
         {MapInsert(e, kv[1], kv[2]) :
            <<e, kv>> \in {x \in Environments(n - 1) \X EnvPool : x[2][1] \notin DOMAIN x[1]}}

EnvProviders == {
    with_prefix(AppPrefix),
    EnvProvider(AppPrefix, EnvSeparator, FALSE, TRUE)
}

InitEnv ==
    /\ pc = "env"
    /\ provider \in EnvProviders
    /\ environ \in Environments(MaxEnvVars)
    /\ env_order = <<>>
    /\ env_result = None
    /\ CoerceIdle
    /\ ClapIdle /\ FileIdle /\ PathIdle
    /\ InsertIdle
    /\ MergeIdle
    /\ LoadIdle

\* provider.read_env_vars()
ReadEnvVars ==
    /\ pc = "env"
    /\ \E order \in Orders(DOMAIN environ) :
          /\ env_order' = order
          /\ env_result' = read_env_vars(provider, environ, order)
    /\ pc' = "env_read"
    /\ UNCHANGED <<provider, environ, coerceVars, clapVars, fileVars, pathVars, insertVars, mergeVars, loadVars>>

NextEnv == ReadEnvVars

SpecEnv == InitEnv /\ [][NextEnv]_vars

(***************************************************************************)
(* Claims about the environment provider (checked under SpecEnv)           *)
(***************************************************************************)
HasPrefix(key) == starts_with(key, AppPrefix)

\* the path s1.s2...sn of a variable PREFIX + S1__S2__...__Sn
PathOf(key) == split(to_lowercase(Drop(key, Len(AppPrefix))), EnvSeparator)

IsPrefixOf(p, q) == Len(p) <= Len(q) /\ Take(q, Len(p)) = p

\* the paths of a tree that end at a leaf
RECURSIVE LeafPaths(_)
LeafPaths(m) ==
    UNION {IF IsDict(m[k]) THEN {<<k>> \o q : q \in LeafPaths(m[k].v)} ELSE {<<k>>} :
             k \in DOMAIN m}

ReadDefault == pc = "env_read" /\ provider = with_prefix(AppPrefix)

\* another prefixed, non-empty variable is written at the same path or at a
\* path leading to it
Shadowed(key) ==
    \E other \in DOMAIN environ \ {key} :
        /\ HasPrefix(other) /\ environ[other] # <<>>
        /\ IsPrefixOf(PathOf(other), PathOf(key))

\* C8, as stated: after a read with default settings, every variable
\* PREFIX + S1__...__Sn = v has coerce(v) at the path s1...sn of the tree, and
\* no path of the tree comes from a variable without the prefix.
C8_EveryPrefixedVariable ==
    (ReadDefault /\ env_result.ok) =>
        /\ \A key \in DOMAIN environ :
              HasPrefix(key) =>
                  Lookup(env_result.val, PathOf(key)) = parse_env_value(environ[key])
        /\ LeafPaths(env_result.val) \subseteq
              {PathOf(key) : key \in {k \in DOMAIN environ : HasPrefix(k)}}

\* C8, amended: after a successful read with default settings, every prefixed
\* variable with a non-empty value v has coerce(v) at its lower-cased path,
\* provided no other prefixed non-empty variable has the same path or a prefix
\* of it; and every leaf of the tree lies at the path of a prefixed variable.
C8_UnshadowedPrefixedVariable ==
    (ReadDefault /\ env_result.ok) =>
        /\ \A key \in DOMAIN environ :
              (HasPrefix(key) /\ environ[key] # <<>> /\ ~Shadowed(key)) =>
                  Lookup(env_result.val, PathOf(key)) = parse_env_value(environ[key])
        /\ LeafPaths(env_result.val) \subseteq
              {PathOf(key) : key \in {k \in DOMAIN environ : HasPrefix(k)}}

C8_Witness ==
    /\ ReadDefault /\ env_result.ok
    /\ DOMAIN environ = {<<"A","P","P","_","A","_","_","B","_","_","C">>, <<"O","T","H","E","R">>}
    /\ Lookup(env_result.val, <<<<"a">>, <<"b">>, <<"c">>>>) = parse_env_value(<<"3",".","1","4">>)
    /\ Lookup(env_result.val, <<<<"a">>, <<"b">>, <<"c">>>>).tag = "Float"
    /\ DOMAIN env_result.val = {<<"a">>}

\* a key or a value that the claim says is rejected
KeyRejected(key) ==
    Len(key) > MaxKeyLen \/ Contains(key, NUL) \/ Contains(key, CR) \/ Contains(key, LF)
ValueRejected(value) == Len(value) > MaxValueLen \/ Contains(value, NUL)
Offending(key) == KeyRejected(key) \/ ValueRejected(environ[key])

\* two prefixed variables of which one's path leads through the other's
ConflictingPair ==
    \E k1, k2 \in DOMAIN environ :
        /\ k1 # k2 /\ HasPrefix(k1) /\ HasPrefix(k2)
        /\ IsPrefixOf(PathOf(k1), PathOf(k2))

EmptyValued(key) == HasPrefix(key) /\ environ[key] = <<>>

\* another prefixed variable is written at the same path or at a path
\* leading to it
Overwritten(key) ==
    \E other \in DOMAIN environ \ {key} :
        HasPrefix(other) /\ IsPrefixOf(PathOf(other), PathOf(key))

\* C11: with ignore_empty set (the default of with_prefix) a prefixed variable
\* with an empty value adds no key: every leaf of the tree lies at the path of
\* a prefixed variable with a non-empty value.  With ignore_empty unset the
\* key is there, holding the coerced empty string.
C11_EmptyValuesIgnored ==
    (pc = "env_read" /\ env_result.ok) =>
        IF provider.ignore_empty
        THEN LeafPaths(env_result.val) \subseteq
                {PathOf(key) : key \in {k \in DOMAIN environ : HasPrefix(k) /\ ~EmptyValued(k)}}
        ELSE \A key \in DOMAIN environ :
                (EmptyValued(key) /\ ~Overwritten(key)) =>
                    Lookup(env_result.val, PathOf(key)) = VString(<<>>)

C11_Witness ==
    /\ pc = "env_read" /\ env_result.ok
    /\ provider = with_prefix(AppPrefix)
    /\ DOMAIN environ = {<<"A","P","P","_","E">>, <<"A","P","P","_","A">>}
    /\ DOMAIN env_result.val = {<<"a">>}

(***************************************************************************)
(* Figment: Figment::new(), Figment::merge(provider), Figment::extract()   *)
(* as load() uses them.  Every provider fills Profile::Default only, so a  *)
(* Figment is Ok(the merged Dict) or Err(the errors, latest first).        *)
(***************************************************************************)
RECURSIVE coalesce(_, _)

\* Dict::coalesce under Order::Merge: the union of the keys, a key of both
\* sides holding the two values coalesced
map_coalesce(a, b) ==
    [k \in DOMAIN a \cup DOMAIN b |->
        IF k \in DOMAIN a /\ k \in DOMAIN b THEN coalesce(a[k], b[k])
        ELSE IF k \in DOMAIN b THEN b[k]
        ELSE a[k]]

\* a coalesce that never looks into two Dicts
coalesce_Replace(a, b) == b

\* a coalesce that appends an incoming Array to the Array it meets
coalesce_JoinArrays(a, b) ==
    IF IsDict(a) /\ IsDict(b) THEN VDict(map_coalesce(a.v, b.v))
    ELSE IF a.tag = "Array" /\ b.tag = "Array" THEN VArray(a.v \o b.v)
    ELSE b

\* Value::coalesce under Order::Merge: two Dicts are coalesced, any other
\* pair is the incoming value
coalesce(a, b) ==
    IF IsDict(a) /\ IsDict(b) THEN VDict(map_coalesce(a.v, b.v))
    ELSE b

\* Figment::new()
figment_new == Ok(EmptyMap)

\* a merge that leaves out a provider whose data() failed
figment_merge_SkipFailed(f, data) ==
    IF f.ok /\ data.ok THEN Ok(map_coalesce(f.val, data.val))
    ELSE f

\* fig.merge(provider), data the Result of provider.data(): an error of the
\* provider or of an earlier one is kept, and the trees are coalesced
figment_merge(f, data) ==
    IF f.ok /\ data.ok THEN Ok(map_coalesce(f.val, data.val))
    ELSE IF data.ok THEN f
    ELSE IF f.ok THEN Err(<<data.err>>)
    ELSE Err(<<data.err>> \o f.err)

\* fig.extract(), into a type that takes any tree
extract(f) == f

\* Error::from(format!("... provider error: {}", e)) of Provider::data
ProviderError(whose, r) ==
    IF r.ok THEN r ELSE Err([kind |-> "Figment", provider |-> whose, source |-> r.err])

(***************************************************************************)
(* The merge fold as a state machine: a Figment that merges a bounded      *)
(* number of providers, each giving a small tree or failing.               *)
(***************************************************************************)
MaxMerges == 2

KA == <<"a">>
KB == <<"b">>
KX == <<"x">>
KY == <<"y">>

One == VInt(FALSE, <<1>>)
Two == VInt(FALSE, <<2>>)
Three == VInt(FALSE, <<3>>)

MergeLeaves == {One, Two, VArray(<<One>>), VArray(<<Two, Three>>)}

\* the functions from a non-empty subset of K to V
Maps(K, V) == UNION {[S -> V] : S \in (SUBSET K) \ {{}}}

MergeValues == MergeLeaves \cup {VDict(d) : d \in Maps({KX, KY}, MergeLeaves)}

MergeTrees ==
    {EmptyMap} \cup Maps({KA}, MergeValues) \cup Maps({KB}, {Two})
        \cup {map_coalesce(a, b) : <<a, b>> \in Maps({KA}, MergeValues) \X Maps({KB}, {Two})}

ProviderData ==
    {Ok(t) : t \in MergeTrees}
        \cup {ProviderError("env", Err(ValidationError("Environment variable value too long")))}

Merges == IF merged = None THEN 0 ELSE merged.n

InitMerge ==
    /\ pc = "merge"
    /\ fig = figment_new
    /\ merged = None
    /\ CoerceIdle
    /\ ClapIdle /\ FileIdle /\ PathIdle
    /\ InsertIdle
    /\ EnvIdle
    /\ LoadIdle

\* fig = fig.merge(provider)
Merge ==
    /\ pc = "merge" /\ Merges < MaxMerges
    /\ \E data \in ProviderData :
          /\ fig' = figment_merge(fig, data)
          /\ merged' = [n |-> Merges + 1, existing |-> fig, incoming |-> data]
    /\ UNCHANGED <<pc, coerceVars, clapVars, fileVars, pathVars, insertVars, envVars, loadVars>>

NextMerge == Merge

SpecMerge == InitMerge /\ [][NextMerge]_vars

(***************************************************************************)
(* Claims about merging (checked under SpecMerge)                          *)
(***************************************************************************)
MergeKeys == {KA, KB, KX, KY}
MergePaths == {<<k>> : k \in MergeKeys} \cup {<<k, l>> : <<k, l>> \in MergeKeys \X MergeKeys}

\* the latest merge met two trees
BothTrees == merged # None /\ merged.existing.ok /\ merged.incoming.ok

Existing(p) == Lookup(merged.existing.val, p)
Incoming(p) == Lookup(merged.incoming.val, p)
IsLeaf(x) == x # None /\ ~IsDict(x)

\* C2: where the two trees both hold a value at a path and the values are not
\* both Dicts, the merged tree holds the incoming value, whole; [{a:1},{a:2}]
\* gives {a:2}, and an Array is replaced, never joined with the earlier Array.
C2_IncomingReplaces ==
    BothTrees =>
        /\ fig.ok
        /\ \A p \in MergePaths :
              (Existing(p) # None /\ Incoming(p) # None
                  /\ ~(IsDict(Existing(p)) /\ IsDict(Incoming(p))))
              => Lookup(fig.val, p) = Incoming(p)
        /\ (merged.existing.val = (KA :> One) /\ merged.incoming.val = (KA :> Two))
              => fig.val = (KA :> Two)
        /\ (merged.existing.val = (KA :> VArray(<<One>>))
               /\ merged.incoming.val = (KA :> VArray(<<Two, Three>>)))
              => fig.val = (KA :> VArray(<<Two, Three>>))

C2_Witness ==
    /\ BothTrees
    /\ merged.existing.val = (KA :> VDict(KX :> VArray(<<One>>)))
    /\ merged.incoming.val = (KA :> VDict(KX :> VArray(<<Two, Three>>)))
    /\ fig = Ok(KA :> VDict(KX :> VArray(<<Two, Three>>)))

\* C3: where the two trees both hold a Dict at a path (the root included), the
\* merged tree holds there a Dict of the union of their keys: a key of the
\* earlier tree alone keeps its value, a key of the incoming tree alone gets
\* its value, and at a key of both that is not a Dict on both sides the
\* incoming value wins; [{a:{x:1}},{a:{y:2}}] gives {a:{x:1,y:2}}.
C3_DictsMergeRecursively ==
    BothTrees =>
        /\ fig.ok
        /\ \A p \in {<<>>} \cup MergePaths :
              (IsDict(Existing(p)) /\ IsDict(Incoming(p))) =>
                  /\ IsDict(Lookup(fig.val, p))
                  /\ DOMAIN Lookup(fig.val, p).v =
                        DOMAIN Existing(p).v \cup DOMAIN Incoming(p).v
                  /\ \A k \in DOMAIN Existing(p).v \ DOMAIN Incoming(p).v :
                        Lookup(fig.val, p).v[k] = Existing(p).v[k]
                  /\ \A k \in DOMAIN Incoming(p).v \ DOMAIN Existing(p).v :
                        Lookup(fig.val, p).v[k] = Incoming(p).v[k]
                  /\ \A k \in DOMAIN Incoming(p).v \cap DOMAIN Existing(p).v :
                        ~(IsDict(Existing(p).v[k]) /\ IsDict(Incoming(p).v[k]))
                            => Lookup(fig.val, p).v[k] = Incoming(p).v[k]

C3_Witness ==
    /\ BothTrees
    /\ merged.existing.val = (KA :> VDict(KX :> One))
    /\ merged.incoming.val = (KA :> VDict(KY :> VArray(<<Two, Three>>)))
    /\ fig = Ok(KA :> VDict(KX :> One @@ KY :> VArray(<<Two, Three>>)))

\* C4: merging two trees in which a path holds a Dict on one side and a leaf
\* on the other fails with a KeyConflict error; neither side wins silently.
C4_DictAgainstLeafIsKeyConflict ==
    (BothTrees /\ \E p \in MergePaths :
                     \/ IsDict(Existing(p)) /\ IsLeaf(Incoming(p))
                     \/ IsLeaf(Existing(p)) /\ IsDict(Incoming(p)))
        => (~fig.ok /\ \E i \in 1..Len(fig.err) : fig.err[i].kind = "KeyConflict")

(***************************************************************************)
(* Paths and the file system.  A path is [dir, name]; the file system is   *)
(* [project_dirs, dirs, files]: whether ProjectDirs::from finds a home,    *)
(* the configuration directories that exist, and what is at each path.     *)
(***************************************************************************)
Toml == <<"t","o","m","l">>
Json == <<"j","s","o","n">>
Ini == <<"i","n","i">>

\* ConfigFileType::from_extension, FileFormat::from_extension
from_extension(ext) ==
    IF to_lowercase(ext) \in {Toml, Json, Ini} THEN to_lowercase(ext) ELSE None

\* the last position of c in s, or 0
LastIndexOf(s, c) ==
    IF Contains(s, c) THEN CHOOSE i \in 1..Len(s) : s[i] = c /\ \A j \in (i + 1)..Len(s) : s[j] # c
    ELSE 0

\* Path::file_name: the last component of the path, <<>> when the path
\* ends in ".."
file_name(path) ==
    IF Drop(path.name, LastIndexOf(path.name, "/")) = <<".",".">> THEN <<>>
    ELSE Drop(path.name, LastIndexOf(path.name, "/"))

\* Path::extension: what follows the last "." of the file name, if the name
\* has one that is not its first character
extension(path) ==
    IF LastIndexOf(file_name(path), ".") <= 1 THEN None
    ELSE Drop(file_name(path), LastIndexOf(file_name(path), "."))

Path(dir, name) == [dir |-> dir, name |-> name]

\* path.exists(), path.is_file()
exists(f, path) == path \in DOMAIN f.files
is_file(f, path) == exists(f, path) /\ f.files[path].is_file

ConfigFilePath(path, file_type, is_required) ==
    [path |-> path, file_type |-> file_type, is_required |-> is_required]

\* get_config_directories answering ConfigDirNotFound when no directory exists
get_config_directories_NotFoundWhenNoneExists(f) ==
    IF ~f.project_dirs THEN Err(Error("ConfigDirNotFound", "", <<>>))
    ELSE IF SelectSeq(<<"system", "user">>, LAMBDA d : d \in f.dirs) = <<>>
    THEN Err(Error("ConfigDirNotFound", "", <<>>))
    ELSE Ok(SelectSeq(<<"system", "user">>, LAMBDA d : d \in f.dirs))

\* get_config_directories: the system directory, then the user directory
get_config_directories(f) ==
    IF ~f.project_dirs THEN Err(Error("ConfigDirNotFound", "", <<>>))
    ELSE IF SelectSeq(<<"system", "user">>, LAMBDA d : d \in f.dirs) = <<>>
    THEN Err(Error("NoConfigFilesFoundInDir", "", <<>>))
    ELSE Ok(SelectSeq(<<"system", "user">>, LAMBDA d : d \in f.dirs))

Extensions == <<Toml, Json, Ini>>
FilePatterns(app_name) == <<<<"c","o","n","f","i","g">>, app_name>>

\* the i-th file name tried in a directory: pattern by pattern, and for each
\* pattern extension by extension
Pattern(app_name, i) ==
    FilePatterns(app_name)[((i - 1) \div Len(Extensions)) + 1]
        \o <<".">> \o Extensions[((i - 1) % Len(Extensions)) + 1]

\* the candidates of resolve_config_files, in the order of its three loops
Candidates(app_name, dirs) ==
    [i \in 1..(Len(dirs) * 2 * Len(Extensions)) |->
        ConfigFilePath(
            Path(dirs[((i - 1) \div (2 * Len(Extensions))) + 1],
                 Pattern(app_name, ((i - 1) % (2 * Len(Extensions))) + 1)),
            Extensions[((i - 1) % Len(Extensions)) + 1],
            FALSE)]

\* the candidates kept whenever something is at the path, a directory too
Resolved_NoFileCheck(f, app_name, dirs) ==
    IF ~dirs.ok THEN dirs
    ELSE Ok(SelectSeq(Candidates(app_name, dirs.val), LAMBDA c : exists(f, c.path)))

Resolved(f, app_name, dirs) ==
    IF ~dirs.ok THEN dirs
    ELSE Ok(SelectSeq(Candidates(app_name, dirs.val),
                      LAMBDA c : exists(f, c.path) /\ is_file(f, c.path)))

\* resolve_config_files
resolve_config_files(f, app_name) == Resolved(f, app_name, get_config_directories(f))

\* add_specified_config_file with the file pushed as an optional one
add_specified_config_file_Optional(f, config_files, path) ==
    IF ~is_file(f, path) THEN Err(Error("SpecifiedFileNotFound", "", path))
    ELSE IF extension(path) = None THEN Err(Error("UnsupportedFormat", "", path))
    ELSE IF from_extension(extension(path)) = None
    THEN Err(Error("UnsupportedFormat", "", path))
    ELSE Ok(Append(config_files,
                   ConfigFilePath(path, from_extension(extension(path)), FALSE)))

\* the file-system checks add_specified_config_file makes on the path, in
\* order: file_path.exists(), and file_path.is_file() when it exists
specified_file_checks(f, path) ==
    IF ~exists(f, path) THEN <<[op |-> "exists", path |-> path]>>
    ELSE <<[op |-> "exists", path |-> path], [op |-> "is_file", path |-> path]>>

\* add_specified_config_file
add_specified_config_file(f, config_files, path) ==
    IF ~exists(f, path) THEN Err(Error("SpecifiedFileNotFound", "", path))
    ELSE IF ~is_file(f, path) THEN Err(Error("SpecifiedFileNotFound", "", path))
    ELSE IF extension(path) = None THEN Err(Error("UnsupportedFormat", "", path))
    ELSE IF from_extension(extension(path)) = None
    THEN Err(Error("UnsupportedFormat", "", path))
    ELSE Ok(Append(config_files,
                   ConfigFilePath(path, from_extension(extension(path)), TRUE)))

(***************************************************************************)
(* Path Security Validator (validate_path_security, tested by              *)
(* security_tests.rs): a path with a ".." segment or a NUL byte is         *)
(* rejected with SecurityViolation, any other path is accepted.            *)
(***************************************************************************)
\* the segments of a path, "/" and "\" both separating
Segments(raw) ==
    split([i \in 1..Len(raw) |-> IF raw[i] = "\\" THEN "/" ELSE raw[i]], <<"/">>)

HasTraversal(raw) == \E i \in DOMAIN Segments(raw) : Segments(raw)[i] = <<".",".">>

IsAbsolute(raw) == raw # <<>> /\ raw[1] = "/"

SecurityViolation(path) == Error("SecurityViolation", "path", path)

\* a validator that turns every absolute path away
validate_path_security_NoAbsolute(path) ==
    IF Contains(path.name, NUL) \/ HasTraversal(path.name) \/ IsAbsolute(path.name)
    THEN Err(SecurityViolation(path))
    ELSE Ok(None)

validate_path_security(path) ==
    IF Contains(path.name, NUL) THEN Err(SecurityViolation(path))
    ELSE IF HasTraversal(path.name) THEN Err(SecurityViolation(path))
    ELSE Ok(None)

(***************************************************************************)
(* File provider.  The content of a file is [kind |-> "unreadable"],       *)
(* [kind |-> "malformed"] or [kind |-> "doc", value |-> a JsonValue], the  *)
(* document its parser reads from it.  A JsonValue is [j, v].              *)
(***************************************************************************)
JNull == [j |-> "Null", v |-> <<>>]
JBool(b) == [j |-> "Bool", v |-> b]
JInt(neg, mag) == [j |-> "Number", v |-> [float |-> FALSE, neg |-> neg, mag |-> mag]]
JFloat(x) == [j |-> "Number", v |-> [float |-> TRUE, x |-> x]]
JString(str) == [j |-> "String", v |-> str]
JArray(a) == [j |-> "Array", v |-> a]
JObject(o) == [j |-> "Object", v |-> o]
\* value inside n arrays of one item each, [[..[value]..]], written short
JArrays(n, value) == [j |-> "Arrays", n |-> n, v |-> value]

DepthLimit(path) == Error("Internal", "Configuration parsing depth limit exceeded", path)

\* Number: as_i64, then as_u64, then as_f64
ConvertNumber(n) ==
    IF n.float THEN [tag |-> "Float", v |-> n.x]
    ELSE IF n.neg /\ MagLeq(n.mag, I64MinMag) THEN VInt(TRUE, n.mag)
    ELSE IF ~n.neg /\ MagLeq(n.mag, I64MaxMag) THEN VInt(FALSE, n.mag)
    ELSE IF ~n.neg /\ MagLeq(n.mag, U64MaxMag) THEN VUInt(n.mag)
    ELSE VString(<<>>)

\* the items of an Array or an Object, converted: the first failure, or
\* the collection of the converted items
Collected(items, tag) ==
    IF \E k \in DOMAIN items : ~items[k].ok
    THEN items[CHOOSE k \in DOMAIN items : ~items[k].ok]
    ELSE Ok([tag |-> tag, v |-> [k \in DOMAIN items |-> items[k].val]])

\* the converted value inside n arrays of one item each
RECURSIVE InArrays(_, _)
InArrays(n, r) ==
    IF ~r.ok \/ n = 0 THEN r ELSE Ok(VArray(<<InArrays(n - 1, r).val>>))

\* LingoFileProviderGeneric::convert_json_value_recursive
RECURSIVE convert_json_value_recursive(_, _, _)
convert_json_value_recursive(p, value, depth) ==
    IF depth > p.max_parse_depth THEN Err(DepthLimit(p.path))
    ELSE IF value.j = "Null" THEN Ok(VString(<<"n","u","l","l">>))
    ELSE IF value.j = "Bool" THEN Ok(VBool(value.v))
    ELSE IF value.j = "Number" THEN Ok(ConvertNumber(value.v))
    ELSE IF value.j = "String" THEN Ok(VString(value.v))
    ELSE IF value.j = "Arrays"
    THEN IF depth + value.n > p.max_parse_depth THEN Err(DepthLimit(p.path))
         ELSE InArrays(value.n, convert_json_value_recursive(p, value.v, depth + value.n))
    ELSE IF value.j = "Array"
    THEN Collected([i \in DOMAIN value.v |->
                       convert_json_value_recursive(p, value.v[i], depth + 1)], "Array")
    ELSE Collected([k \in DOMAIN value.v |->
                       convert_json_value_recursive(p, value.v[k], depth + 1)], "Dict")

\* convert_to_figment_value
convert_to_figment_value(p, json_value) == convert_json_value_recursive(p, json_value, 0)

\* LingoFileProvider::from_path
from_path(path, is_required, max_parse_depth) ==
    IF extension(path) = None THEN Err(Error("UnsupportedFormat", "", path))
    ELSE IF from_extension(extension(path)) = None
    THEN Err(Error("UnsupportedFormat", "", path))
    ELSE Ok([path |-> path, format |-> from_extension(extension(path)),
             is_required |-> is_required, max_parse_depth |-> max_parse_depth])

MaxOf(S) == CHOOSE x \in S : \A y \in S : y <= x

\* the number of arrays and objects a document nests, one inside the other
RECURSIVE Nesting(_)
Nesting(value) ==
    IF value.j = "Arrays" THEN value.n + Nesting(value.v)
    ELSE IF value.j \in {"Array", "Object"}
    THEN 1 + MaxOf({0} \cup {Nesting(value.v[k]) : k \in DOMAIN value.v})
    ELSE 0

\* serde_json::from_str gives up on a text that nests this many arrays and
\* objects ("recursion limit exceeded")
SerdeRecursionLimit == 128

\* parse_json: serde_json::from_str, then the conversion
parse_json(p, content) ==
    IF content.kind = "malformed" THEN Err(Error("FileParse", p.format, p.path))
    ELSE IF Nesting(content.value) >= SerdeRecursionLimit
    THEN Err(Error("FileParse", p.format, p.path))
    ELSE convert_to_figment_value(p, content.value)

\* parse_toml (and the other formats): the parser's document, converted
parse_toml(p, content) ==
    IF content.kind = "malformed" THEN Err(Error("FileParse", p.format, p.path))
    ELSE convert_to_figment_value(p, content.value)

\* section_name.unwrap_or("default")
unwrap_or(opt, default) == IF opt.tag = "None" THEN default ELSE opt.v

\* section_map after the inner loop over the first n properties: each
\* (key, value) inserted as Value::String(value), a later key replacing an
\* earlier equal one
RECURSIVE section_map(_, _)
section_map(properties, n) ==
    IF n = 0 THEN EmptyMap
    ELSE (properties[n][1] :> VString(properties[n][2])) @@ section_map(properties, n - 1)

\* root_map after the outer loop over the first n sections of ini.iter()
RECURSIVE root_map(_, _)
root_map(ini, n) ==
    IF n = 0 THEN EmptyMap
    ELSE (unwrap_or(ini[n].name, <<"d","e","f","a","u","l","t">>) :>
             VDict(section_map(ini[n].props, Len(ini[n].props))))
         @@ root_map(ini, n - 1)

\* parse_ini: Ini::load_from_str, then the sections as Dicts of Strings
parse_ini(p, content) ==
    IF content.kind # "ini" THEN Err(Error("FileParse", p.format, p.path))
    ELSE Ok(VDict(root_map(content.value, Len(content.value))))

\* parse_content
parse_content(p, content) ==
    IF p.format = Json THEN parse_json(p, content)
    ELSE IF p.format = Ini THEN parse_ini(p, content)
    ELSE parse_toml(p, content)

\* read_and_parse with every file taken for a required one
read_and_parse_AlwaysRequired(f, p) ==
    IF ~is_file(f, p.path) THEN Err(Error("SpecifiedFileNotFound", "", p.path))
    ELSE IF f.files[p.path].content.kind = "unreadable"
    THEN Err(Error("FileReadError", "", p.path))
    ELSE parse_content(p, f.files[p.path].content)

\* a call of the FileReader of the provider
ReaderCall(op, path) == [op |-> op, path |-> path]

\* the calls read_and_parse makes to its FileReader: exists, and
\* read_content when the file exists
reader_calls(f, p) ==
    IF ~is_file(f, p.path) THEN <<ReaderCall("exists", p.path)>>
    ELSE <<ReaderCall("exists", p.path), ReaderCall("read_content", p.path)>>

\* read_and_parse
read_and_parse(f, p) ==
    IF ~is_file(f, p.path)
    THEN IF p.is_required THEN Err(Error("SpecifiedFileNotFound", "", p.path))
         ELSE Ok(VDict(EmptyMap))
    ELSE IF f.files[p.path].content.kind = "unreadable"
    THEN Err(Error("FileReadError", "", p.path))
    ELSE parse_content(p, f.files[p.path].content)

(***************************************************************************)
(* Error messages: the Display of an error, in a debug build               *)
(* (debug_assertions) or in a release build                                *)
(***************************************************************************)
\* path.to_string_lossy(), path.display(): the path as it was given
to_string_lossy(path) == path.name

\* sanitize_path_for_display
sanitize_path_for_display(path, debug_assertions) ==
    IF debug_assertions THEN to_string_lossy(path)
    ELSE IF file_name(path) # <<>> THEN <<"<","s","a","n","i","t","i","z","e","d",">","/">> \o file_name(path)
    ELSE <<"<","s","a","n","i","t","i","z","e","d","_","p","a","t","h",">">>

\* a natural number in decimal, as "{}" formats it
RECURSIVE Decimal(_)
Decimal(n) ==
    IF n < 10 THEN <<Digits[n + 1]>> ELSE Decimal(n \div 10) \o <<Digits[(n % 10) + 1]>>

\* format_name of a FileParse error: "TOML", "JSON", "INI"
FormatName(format) ==
    IF format = Toml THEN <<"T","O","M","L">> ELSE IF format = Json THEN <<"J","S","O","N">> ELSE <<"I","N","I">>

\* e.to_string() of the parser and of std::io::Error: no path in them
ParserErrorText == <<"e","x","p","e","c","t","e","d"," ","v","a","l","u","e"," ","a","t"," ","l","i","n","e"," ","1"," ","c","o","l","u","m","n"," ","1">>
IoErrorText == <<"P","e","r","m","i","s","s","i","o","n"," ","d","e","n","i","e","d"," ","(","o","s"," ","e","r","r","o","r"," ","1","3",")">>

\* the String of the Internal error convert_json_value_recursive builds
DepthLimitText(max_parse_depth, path) ==
    <<"C","o","n","f","i","g","u","r","a","t","i","o","n"," ","p","a","r","s","i","n","g"," ","d","e","p","t","h"," ","l","i","m","i","t"," ","(">> \o Decimal(max_parse_depth)
        \o <<")"," ","e","x","c","e","e","d","e","d"," ","i","n"," ","f","i","l","e",":"," ">> \o to_string_lossy(path)

\* #[error("...")] of the errors from_path and read_and_parse return
to_string(e, max_parse_depth, debug_assertions) ==
    IF e.kind = "FileReadError"
    THEN <<"F","a","i","l","e","d"," ","t","o"," ","r","e","a","d"," ","f","i","l","e"," ">> \o to_string_lossy(e.at) \o <<":"," ">> \o IoErrorText
    ELSE IF e.kind = "FileParse"
    THEN <<"F","a","i","l","e","d"," ","t","o"," ","p","a","r","s","e"," ">> \o FormatName(e.msg) \o <<" ","f","i","l","e"," ">>
             \o sanitize_path_for_display(e.at, debug_assertions) \o <<":"," ">> \o ParserErrorText
    ELSE IF e.kind = "SpecifiedFileNotFound"
    THEN <<"S","p","e","c","i","f","i","e","d"," ","c","o","n","f","i","g","u","r","a","t","i","o","n"," ","f","i","l","e"," ","n","o","t"," ","f","o","u","n","d",":"," ">>
             \o sanitize_path_for_display(e.at, debug_assertions)
    ELSE IF e.kind = "UnsupportedFormat"
    THEN <<"U","n","s","u","p","p","o","r","t","e","d"," ","c","o","n","f","i","g","u","r","a","t","i","o","n"," ","f","i","l","e"," ","f","o","r","m","a","t"," ","f","o","r",":"," ">>
             \o sanitize_path_for_display(e.at, debug_assertions)
    ELSE <<"I","n","t","e","r","n","a","l"," ","Q","u","a","n","t","u","m"," ","C","o","n","f","i","g"," ","e","r","r","o","r",":"," ">> \o DepthLimitText(max_parse_depth, e.at)

\* max_parse_depth of the provider, when there is one
MaxDepthOf(p) == IF p = None THEN 0 ELSE p.max_parse_depth

\* a value that is not a Dict goes under the key "value"
Wrapped(r) ==
    IF ~r.ok THEN r
    ELSE IF IsDict(r.val) THEN Ok(r.val.v)
    ELSE Ok(<<"v","a","l","u","e">> :> r.val)

\* Provider::data of the file provider
file_data(f, p) == ProviderError("file", Wrapped(read_and_parse(f, p)))

\* Provider::data of the environment provider
env_data(p, env, order) == ProviderError("env", read_env_vars(p, env, order))

(***************************************************************************)
(* CLI provider.  The ArgMatches are [valid_args, ids, values, flags,       *)
(* debug_assertions]: the arguments registered with the Command, the ids   *)
(* present in the matches, the value lists of the options given, the state *)
(* of every SetTrue flag (present in the matches also when not given, as   *)
(* false), and whether clap checks the ids it is asked about.              *)
(***************************************************************************)
ArgMatches(valid_args, ids, values, flags, debug_assertions) ==
    [valid_args |-> valid_args, ids |-> ids, values |-> values, flags |-> flags,
     debug_assertions |-> debug_assertions]

ArgConfig == <<"c","o","n","f","i","g">>
ArgConfigDir == <<"c","o","n","f","i","g","-","d","i","r">>
ArgLogLevel == <<"l","o","g","-","l","e","v","e","l">>
ArgVerbose == <<"v","e","r","b","o","s","e">>
ArgQuiet == <<"q","u","i","e","t">>
ArgOutput == <<"o","u","t","p","u","t">>
ArgFormat == <<"f","o","r","m","a","t">>

\* the arguments of the Command built by load, in the order of their definition
ArgIds == <<ArgConfig, ArgConfigDir, ArgLogLevel, ArgVerbose, ArgQuiet, ArgOutput, ArgFormat>>

\* LingoClapProvider::new
ClapProvider(matches, arg_mapping, separator) ==
    [matches |-> matches, arg_mapping |-> arg_mapping, separator |-> separator]

\* with_common_mappings
with_common_mappings(matches) ==
    ClapProvider(matches,
        (ArgConfig :> <<"c","o","n","f","i","g","_","f","i","l","e">>) @@ (ArgConfigDir :> <<"c","o","n","f","i","g","_","d","i","r">>)
        @@ (ArgLogLevel :> <<"l","o","g","g","i","n","g",".","l","e","v","e","l">>)
        @@ (ArgVerbose :> <<"l","o","g","g","i","n","g",".","v","e","r","b","o","s","e">>)
        @@ (ArgQuiet :> <<"l","o","g","g","i","n","g",".","q","u","i","e","t">>)
        @@ (ArgOutput :> <<"o","u","t","p","u","t",".","f","i","l","e">>)
        @@ (ArgFormat :> <<"o","u","t","p","u","t",".","f","o","r","m","a","t">>),
        ClapSeparator)

\* the mapping left out
config_key_ArgName(p, arg_name) == arg_name

\* "获取配置键名": the mapped key, or the name of the argument
config_key(p, arg_name) ==
    IF arg_name \in DOMAIN p.arg_mapping THEN p.arg_mapping[arg_name] ELSE arg_name

InSeq(x, s) == \E i \in DOMAIN s : s[i] = x

UnknownArgument(arg_name) == Error("Internal", "Unknown argument", arg_name)

\* the closure unwinds
Panic == [ok |-> FALSE, panic |-> TRUE]

\* the closure run under catch_unwind: Panic, or the Result it returns.
\* contains_id panics on an id that is not registered when clap checks ids
\* and answers false otherwise; get_many::<String> panics on a flag, whose
\* value is a bool
get_arg_values_closure(m, arg_name) ==
    IF ~InSeq(arg_name, m.valid_args)
    THEN IF m.debug_assertions THEN Panic ELSE Err("Unknown argument")
    ELSE IF ~InSeq(arg_name, m.ids) THEN Err("Unknown argument")
    ELSE IF arg_name \in DOMAIN m.flags THEN Panic
    ELSE Ok(Some(m.values[arg_name]))

\* the match on the outcome of catch_unwind
get_arg_values_match(m, arg_name, outcome) ==
    IF outcome = Panic
    THEN IF ~InSeq(arg_name, m.ids) THEN Err(UnknownArgument(arg_name)) ELSE Ok(None)
    ELSE IF outcome.ok THEN outcome
    ELSE Err(UnknownArgument(arg_name))

\* with every name in the matches taken for a known one
get_arg_values_NoneForUnknown(p, arg_name) ==
    IF arg_name \in DOMAIN p.matches.values THEN Ok(Some(p.matches.values[arg_name])) ELSE Ok(None)

\* LingoClapProvider::get_arg_values: Ok(the values), Ok(None) or Err
get_arg_values(p, arg_name) ==
    get_arg_values_match(p.matches, arg_name, get_arg_values_closure(p.matches, arg_name))

\* every flag of the matches taken for a flag that was given
get_flag_Present(m, arg_name) == arg_name \in DOMAIN m.flags

\* ArgMatches::get_flag, asked about the ids of the matches that have no
\* string values
get_flag(m, arg_name) == arg_name \in DOMAIN m.flags /\ m.flags[arg_name]

\* "if let Some(values) = self.get_arg_values(arg_name)? { .. } else if get_flag { .. }"
ClapInsertArg(p, r, arg_name, values) ==
    IF ~values.ok THEN values
    ELSE IF values.val # None
    THEN clap_insert_nested_value(p.separator, r.val, config_key(p, arg_name), values.val.v)
    ELSE IF get_flag(p.matches, arg_name)
    THEN insert_nested_value_direct(p.separator, r.val, config_key(p, arg_name), VBool(TRUE))
    ELSE r

\* one iteration of the loop of read_clap_args over matches.ids()
ClapStep(p, r, arg_name) ==
    IF ~r.ok THEN r
    ELSE ClapInsertArg(p, r, arg_name, get_arg_values(p, arg_name))

RECURSIVE ClapLoop(_, _, _)
ClapLoop(p, ids, r) ==
    IF ids = <<>> THEN r
    ELSE ClapLoop(p, Tail(ids), ClapStep(p, r, ids[1]))

\* LingoClapProvider::read_clap_args
read_clap_args(p) == ClapLoop(p, p.matches.ids, Ok(EmptyMap))

\* Provider::data of the CLI provider
clap_data(p) == ProviderError("clap", read_clap_args(p))

(***************************************************************************)
(* load_with_args as a state machine: a file system, a command line and an *)
(* environment are drawn, then the steps of the generated function run:    *)
(* resolve, parse the arguments, add the --config file, merge every file,  *)
(* merge the environment, merge the command line, extract.                 *)
(***************************************************************************)
MaxParseDepth == 128        \* LingoAppMeta { max_parse_depth: 128 }

AppName == <<"A","p","p">>            \* stringify!(#name)

KLogging == <<"l","o","g","g","i","n","g">>
KLevel == <<"l","e","v","e","l">>
KVerbose == <<"v","e","r","b","o","s","e">>
KPort == <<"p","o","r","t">>
KTags == <<"t","a","g","s">>

Doc(value) == [kind |-> "doc", value |-> value]
Malformed == [kind |-> "malformed"]
Unreadable == [kind |-> "unreadable"]
File(content) == [is_file |-> TRUE, content |-> content]
Directory == [is_file |-> FALSE, content |-> Unreadable]

DocSystem ==
    JObject((KLogging :> JObject((KLevel :> JString(<<"i","n","f","o">>)) @@ (KVerbose :> JBool(FALSE))))
            @@ (KPort :> JInt(FALSE, <<8, 0>>))
            @@ (KTags :> JArray(<<JString(<<"a">>), JNull>>)))
DocUser == JObject(KLogging :> JObject(KLevel :> JString(<<"t","r","a","c","e">>)))
DocApp == JObject(KLogging :> JString(<<"a","l","l">>))
DocExplicit ==
    JObject((KLogging :> JObject(KLevel :> JString(<<"e","r","r","o","r">>)))
            @@ (KPort :> JInt(FALSE, <<9, 0, 0, 0>>)))

SystemConfigToml == Path("system", <<"c","o","n","f","i","g",".","t","o","m","l">>)
UserConfigToml == Path("user", <<"c","o","n","f","i","g",".","t","o","m","l">>)
UserAppJson == Path("user", <<"A","p","p",".","j","s","o","n">>)

\* what is in the working directory, where the --config paths lead
CwdFiles ==
    (Path("cwd", <<"m","y",".","T","O","M","L">>) :> File(Doc(DocExplicit)))
    @@ (Path("cwd", <<"b","a","d",".","j","s","o","n">>) :> File(Malformed))
    @@ (Path("cwd", <<"l","o","c","k","e","d",".","t","o","m","l">>) :> File(Unreadable))
    @@ (Path("cwd", <<"m","y",".","y","a","m","l">>) :> File(Doc(DocUser)))
    @@ (Path("cwd", <<"m","y">>) :> File(Doc(DocUser)))
    @@ (Path("cwd", <<"c","o","n","f",".","t","o","m","l">>) :> Directory)

ExplicitNames ==
    {<<"m","y",".","T","O","M","L">>, <<"b","a","d",".","j","s","o","n">>, <<"l","o","c","k","e","d",".","t","o","m","l">>, <<"m","y",".","y","a","m","l">>, <<"m","y">>, <<"c","o","n","f",".","t","o","m","l">>, <<"m","i","s","s","i","n","g",".","t","o","m","l">>}

SystemFiles(d) ==
    IF "system" \in d THEN {EmptyMap, SystemConfigToml :> File(Doc(DocSystem))}
    ELSE {EmptyMap}

UserFiles(d) ==
    IF "user" \in d
    THEN {u @@ a : <<u, a>> \in
             {EmptyMap, UserConfigToml :> File(Doc(DocUser)), UserConfigToml :> File(Malformed)}
             \X {EmptyMap, UserAppJson :> File(Doc(DocApp))}}
    ELSE {EmptyMap}

FileSystem(project_dirs, dirs, files) ==
    [project_dirs |-> project_dirs, dirs |-> dirs, files |-> files]

FileSystemsOf(d) ==
    {FileSystem(TRUE, d, CwdFiles @@ sf @@ uf) : <<sf, uf>> \in SystemFiles(d) \X UserFiles(d)}

FileSystems ==
    {FileSystem(FALSE, {}, CwdFiles)}
        \cup FileSystemsOf({}) \cup FileSystemsOf({"user"}) \cup FileSystemsOf({"system", "user"})

NoFlags == (ArgVerbose :> FALSE) @@ (ArgQuiet :> FALSE)

CommandLine(valid, values, flags) == [valid |-> valid, values |-> values, flags |-> flags]

ConfigOptions == {EmptyMap} \cup {ArgConfig :> <<name>> : name \in ExplicitNames}

CommandLines ==
    {CommandLine(FALSE, EmptyMap, NoFlags)}
        \cup {CommandLine(TRUE, c, NoFlags) : c \in ConfigOptions}
        \cup {CommandLine(TRUE, c @@ (ArgLogLevel :> <<<<"w","a","r","n">>>>), NoFlags) : c \in ConfigOptions}
        \cup {CommandLine(TRUE, c @@ (ArgLogLevel :> <<<<"w","a","r","n">>>>),
                          (ArgVerbose :> TRUE) @@ (ArgQuiet :> FALSE)) : c \in ConfigOptions}

LoadEnvPool == {
    <<<<"A","P","P","_","L","O","G","G","I","N","G","_","_","L","E","V","E","L">>, <<"d","e","b","u","g">>>>,
    <<<<"A","P","P","_","L","O","G","G","I","N","G">>, <<"o","n">>>>,
    <<<<"A","P","P","_","L","O","G","_","L","E","V","E","L">>, <<"i","n","f","o">>>>,
    <<<<"A","P","P","_","N">>, <<"a", NUL, "b">> >>
}

EnvOf(S) == [k \in {kv[1] : kv \in S} |-> (CHOOSE kv \in S : kv[1] = k)[2]]

LoadEnvironments == {EnvOf(S) : S \in SUBSET LoadEnvPool}

\* Command::try_get_matches_from(args)
try_get_matches_from(a) ==
    IF a.valid
    THEN Ok(ArgMatches(ArgIds,
                       SelectSeq(ArgIds, LAMBDA id : id \in DOMAIN a.values \cup DOMAIN a.flags),
                       a.values, a.flags, TRUE))
    ELSE Err(Error("Internal", "Failed to parse CLI args", <<>>))

InitLoad ==
    /\ pc = "load"
    /\ fs \in FileSystems
    /\ args \in CommandLines
    /\ environ \in LoadEnvironments
    /\ provider = None /\ env_order = <<>> /\ env_result = None
    /\ clap_matches = None /\ config_file_paths = <<>> /\ result = None
    /\ fig = None /\ merged = None
    /\ CoerceIdle
    /\ ClapIdle /\ FileIdle /\ PathIdle
    /\ InsertIdle

\* let mut config_file_paths = match resolve_config_files(&app_meta) { ... }
ResolveConfigFiles ==
    /\ pc = "load"
    /\ LET r == resolve_config_files(fs, AppName)
       IN IF r.ok
          THEN config_file_paths' = r.val /\ pc' = "parse_args" /\ UNCHANGED result
          ELSE IF r.err.kind \in {"NoConfigFilesFoundInDir", "ConfigDirNotFound"}
          THEN config_file_paths' = <<>> /\ pc' = "parse_args" /\ UNCHANGED result
          ELSE result' = r /\ pc' = "done" /\ UNCHANGED config_file_paths
    /\ UNCHANGED <<fs, args, clap_matches, coerceVars, clapVars, fileVars, pathVars, insertVars, envVars, mergeVars>>

\* let clap_matches = Command::new(..)...try_get_matches_from(args).map_err(..)?
ParseArgs ==
    /\ pc = "parse_args"
    /\ LET r == try_get_matches_from(args)
       IN IF r.ok
          THEN clap_matches' = r.val /\ pc' = "add_specified" /\ UNCHANGED result
          ELSE result' = r /\ pc' = "done" /\ UNCHANGED clap_matches
    /\ UNCHANGED <<fs, args, config_file_paths, coerceVars, clapVars, fileVars, pathVars, insertVars, envVars, mergeVars>>

\* if let Some(cfg) = clap_matches.get_one("config") { add_specified_config_file(..)? }
\* let mut fig = Figment::new()
AddSpecifiedConfigFile ==
    /\ pc = "add_specified"
    /\ IF ArgConfig \notin DOMAIN clap_matches.values
       THEN fig' = figment_new /\ pc' = "files" /\ UNCHANGED <<config_file_paths, result>>
       ELSE LET r == add_specified_config_file(fs, config_file_paths,
                                               Path("cwd", clap_matches.values[ArgConfig][1]))
            IN IF r.ok
               THEN /\ config_file_paths' = r.val /\ fig' = figment_new
                    /\ pc' = "files" /\ UNCHANGED result
               ELSE result' = r /\ pc' = "done" /\ UNCHANGED <<config_file_paths, fig>>
    /\ UNCHANGED <<fs, args, clap_matches, merged, coerceVars, clapVars, fileVars, pathVars, insertVars, envVars>>

\* for cfg in config_file_paths { let provider = from_path(..)?; fig = fig.merge(provider) }
MergeFile ==
    /\ pc = "files" /\ config_file_paths # <<>>
    /\ LET cfg == Head(config_file_paths)
           r == from_path(cfg.path, cfg.is_required, MaxParseDepth)
       IN IF r.ok
          THEN /\ fig' = figment_merge(fig, file_data(fs, r.val))
               /\ config_file_paths' = Tail(config_file_paths)
               /\ UNCHANGED <<pc, result>>
          ELSE result' = r /\ pc' = "done" /\ UNCHANGED <<config_file_paths, fig>>
    /\ UNCHANGED <<fs, args, clap_matches, merged, coerceVars, clapVars, fileVars, pathVars, insertVars, envVars>>

\* let env_provider = LingoEnvProvider::with_prefix(prefix); fig = fig.merge(env_provider)
MergeEnv ==
    /\ pc = "files" /\ config_file_paths = <<>>
    /\ provider' = with_prefix(AppPrefix)
    /\ \E order \in Orders(DOMAIN environ) :
          /\ env_order' = order
          /\ env_result' = read_env_vars(with_prefix(AppPrefix), environ, order)
          /\ fig' = figment_merge(fig, env_data(with_prefix(AppPrefix), environ, order))
    /\ pc' = "clap"
    /\ UNCHANGED <<environ, merged, loadVars, coerceVars, clapVars, fileVars, pathVars, insertVars>>

\* let clap_provider = with_common_mappings(clap_matches); fig = fig.merge(clap_provider)
MergeClap ==
    /\ pc = "clap"
    /\ fig' = figment_merge(fig, clap_data(with_common_mappings(clap_matches)))
    /\ pc' = "extract"
    /\ UNCHANGED <<merged, loadVars, coerceVars, clapVars, fileVars, pathVars, insertVars, envVars>>

\* Ok(fig.extract()?)
Extract ==
    /\ pc = "extract"
    /\ result' = extract(fig)
    /\ pc' = "done"
    /\ UNCHANGED <<fs, args, clap_matches, config_file_paths,
                   mergeVars, coerceVars, clapVars, fileVars, pathVars, insertVars, envVars>>

NextLoad ==
    \/ ResolveConfigFiles
    \/ ParseArgs
    \/ AddSpecifiedConfigFile
    \/ MergeFile
    \/ MergeEnv
    \/ MergeClap
    \/ Extract

SpecLoad == InitLoad /\ [][NextLoad]_vars

(***************************************************************************)
(* Claims about load_with_args (checked under SpecLoad)                    *)
(***************************************************************************)
Loaded == pc = "done" /\ result.ok

\* --config was given
ExplicitGiven == args.valid /\ ArgConfig \in DOMAIN args.values
ExplicitPath == Path("cwd", args.values[ArgConfig][1])

\* the files merged by a load that ran to its end, lowest priority first
DiscoveredFiles ==
    IF resolve_config_files(fs, AppName).ok THEN resolve_config_files(fs, AppName).val
    ELSE <<>>
LoadedFiles ==
    IF ExplicitGiven
    THEN add_specified_config_file(fs, DiscoveredFiles, ExplicitPath).val
    ELSE DiscoveredFiles

FileTree(cfg) ==
    file_data(fs, from_path(cfg.path, cfg.is_required, MaxParseDepth).val).val

\* the trees of the providers of a load that ran to its end, in the order of
\* their merging: the files, the environment, the command line
Sources ==
    [i \in 1..Len(LoadedFiles) |-> FileTree(LoadedFiles[i])]
        \o <<env_result.val, read_clap_args(with_common_mappings(clap_matches)).val>>

\* the sources that set the key at path p, and the last of them
Setters(p) == {i \in DOMAIN Sources : IsLeaf(Lookup(Sources[i], p))}
Highest(S) == CHOOSE i \in S : \A j \in S : j <= i

SourcePaths == UNION {LeafPaths(Sources[i]) : i \in DOMAIN Sources}

\* some source holds a Dict at p, or a leaf on the way to p
ShapeConflict(p) ==
    \E i \in DOMAIN Sources :
        \/ IsDict(Lookup(Sources[i], p))
        \/ \E n \in 1..(Len(p) - 1) : IsLeaf(Lookup(Sources[i], Take(p, n)))

\* C1: the providers are merged discovered files, --config file, environment,
\* command line; so every key set by some source has, in the configuration
\* returned, the value of the last of these sources that sets it.
C1_HighestPrioritySourceWins ==
    Loaded =>
        \A p \in SourcePaths : Lookup(result.val, p) = Lookup(Sources[Highest(Setters(p))], p)

\* the same, for the keys on which the sources agree in shape
PriorityWithoutShapeConflict ==
    Loaded =>
        \A p \in SourcePaths :
            ~ShapeConflict(p) =>
                Lookup(result.val, p) = Lookup(Sources[Highest(Setters(p))], p)

\* --config leads to no file, to a file of no supported format, or to a file
\* that cannot be read or parsed
ExplicitFileFails ==
    /\ ExplicitGiven
    /\ \/ ExplicitPath \notin DOMAIN fs.files
       \/ ~fs.files[ExplicitPath].is_file
       \/ extension(ExplicitPath) = None
       \/ to_lowercase(extension(ExplicitPath)) \notin {Toml, Json, Ini}
       \/ fs.files[ExplicitPath].content.kind # "doc"

\* a variable of the environment fails the validation of the provider
EnvironmentFails ==
    \E key \in DOMAIN environ : KeyRejected(key) \/ ValueRejected(environ[key])

RECURSIVE MergedAll(_)
MergedAll(trees) ==
    IF trees = <<>> THEN EmptyMap
    ELSE map_coalesce(MergedAll(SubSeq(trees, 1, Len(trees) - 1)), trees[Len(trees)])

\* C5: load_with_args returns a configuration or an error.  When the command
\* line, the --config file or the environment fails, it returns an error; and
\* a configuration returned is the merge of all the providers, never of some.
C5_AllOrNothing ==
    pc = "done" =>
        /\ (~args.valid \/ ExplicitFileFails \/ EnvironmentFails) => ~result.ok
        /\ result.ok => result.val = MergedAll(Sources)

C5_Witness ==
    /\ pc = "done" /\ ~result.ok
    /\ ExplicitGiven /\ ~ExplicitFileFails
    /\ DOMAIN environ = {<<"A","P","P","_","L","O","G","G","I","N","G","_","_","L","E","V","E","L">>, <<"A","P","P","_","N">>}
    /\ env_order = <<<<"A","P","P","_","L","O","G","G","I","N","G","_","_","L","E","V","E","L">>, <<"A","P","P","_","N">>>>
    /\ result.err[1].provider = "env"
    /\ result.err[1].source.kind = "ValidationError"

(***************************************************************************)
(* The CLI provider as a state machine: the Command of the provider's own  *)
(* tests (create_test_app) parses a command line, a provider is built over *)
(* the matches, and it is read once or asked about one argument name.      *)
(***************************************************************************)
ArgValues == <<"v","a","l","u","e","s">>

\* create_test_app: config, verbose (SetTrue), log-level, values (Append)
TestArgIds == <<ArgConfig, ArgVerbose, ArgLogLevel, ArgValues>>

\* what --config, --log-level and --values can be given as
TestConfigValues == {EmptyMap, ArgConfig :> <<<<"c","o","n","f","i","g",".","t","o","m","l">>>>}
TestLogLevelValues ==
    {EmptyMap, ArgLogLevel :> <<<<"d","e","b","u","g">>>>, ArgLogLevel :> <<<<"4","2">>>>}
TestValuesValues ==
    {EmptyMap, ArgValues :> <<<<"v","a","l","1">>>>, ArgValues :> <<<<"v","a","l","1">>, <<"v","a","l","2">>>>,
     ArgValues :> <<<<"1">>, <<"x">>, <<"o","n">>>>}

\* try_get_matches_from of create_test_app, the ids in an order of the matches
TestMatches ==
    {ArgMatches(TestArgIds, ids, c @@ l @@ v, ArgVerbose :> f, d) :
        <<c, l, v, f, d, ids>> \in
            {t \in TestConfigValues \X TestLogLevelValues \X TestValuesValues
                    \X BOOLEAN \X BOOLEAN
                    \X UNION {Orders(S) : S \in SUBSET {TestArgIds[i] : i \in 1..4}} :
                {t[6][i] : i \in DOMAIN t[6]} = DOMAIN t[1] \cup DOMAIN t[2] \cup DOMAIN t[3] \cup {ArgVerbose}}}

\* from_matches, the map_arg calls of test_map_arg, and those with the flag
\* mapped as with_common_mappings maps it
TestMappings ==
    {EmptyMap,
     (ArgConfig :> <<"c","o","n","f","i","g","_","f","i","l","e">>) @@ (ArgLogLevel :> <<"l","o","g","g","i","n","g",".","l","e","v","e","l">>),
     (ArgConfig :> <<"c","o","n","f","i","g","_","f","i","l","e">>) @@ (ArgLogLevel :> <<"l","o","g","g","i","n","g",".","l","e","v","e","l">>)
        @@ (ArgVerbose :> <<"l","o","g","g","i","n","g",".","v","e","r","b","o","s","e">>)}

\* the names get_arg_values is asked about: the registered ones and
\* "nonexistent" (test_get_arg_values_nonexistent)
QueryNames == {TestArgIds[i] : i \in 1..4} \cup {<<"n","o","n","e","x","i","s","t","e","n","t">>}

InitClap ==
    /\ pc = "clap"
    /\ cli \in {ClapProvider(m, am, ClapSeparator) : m \in TestMatches, am \in TestMappings}
    /\ cli_result = None /\ cli_query = None
    /\ CoerceIdle /\ InsertIdle /\ EnvIdle /\ MergeIdle /\ LoadIdle
    /\ FileIdle /\ PathIdle

\* provider.read_clap_args()
ReadClapArgs ==
    /\ pc = "clap"
    /\ cli_result' = read_clap_args(cli)
    /\ pc' = "clap_read"
    /\ UNCHANGED <<cli, cli_query, coerceVars, insertVars, envVars, mergeVars, loadVars,
                   fileVars, pathVars>>

\* provider.get_arg_values(name)
GetArgValues ==
    /\ pc = "clap"
    /\ \E name \in QueryNames :
          cli_query' = [name |-> name, result |-> get_arg_values(cli, name)]
    /\ pc' = "clap_asked"
    /\ UNCHANGED <<cli, cli_result, coerceVars, insertVars, envVars, mergeVars, loadVars,
                   fileVars, pathVars>>

NextClap == ReadClapArgs \/ GetArgValues

SpecClap == InitClap /\ [][NextClap]_vars

(***************************************************************************)
(* Claims about the CLI provider (checked under SpecClap)                  *)
(***************************************************************************)
\* the path an argument is written at
ArgPath(name) == split(config_key(cli, name), cli.separator)

IsTrue(x) == x.tag = "Bool" /\ x.v = TRUE

\* C12: for every boolean flag the tree of the CLI provider holds Bool(true)
\* at the flag's mapped path exactly when the flag was given; for a flag that
\* was not given there is no entry at that path at all, never Bool(false).
C12_FlagOnlyWhenSet ==
    pc = "clap_read" =>
        /\ cli_result.ok
        /\ \A flag \in DOMAIN cli.matches.flags :
              IF cli.matches.flags[flag]
              THEN IsTrue(Lookup(cli_result.val, ArgPath(flag)))
              ELSE Lookup(cli_result.val, ArgPath(flag)) = None

C12_Witness ==
    /\ pc = "clap_read" /\ cli_result.ok
    /\ cli.matches.flags[ArgVerbose]
    /\ ArgVerbose \in DOMAIN cli.arg_mapping
    /\ IsTrue(Lookup(cli_result.val, <<<<"l","o","g","g","i","n","g">>, <<"v","e","r","b","o","s","e">>>>))

\* C13: every non-flag argument that was given is found at its mapped key
\* path, split on the separator, or at its own name when it has no mapping:
\* one value as the coerced leaf, several values as the Array of the coerced
\* leaves in the order given.
C13_ValuesAtMappedPath ==
    pc = "clap_read" =>
        /\ cli_result.ok
        /\ \A name \in DOMAIN cli.matches.values :
              Lookup(cli_result.val,
                     split(IF name \in DOMAIN cli.arg_mapping THEN cli.arg_mapping[name] ELSE name,
                           <<".">>))
                = IF Len(cli.matches.values[name]) = 1
                  THEN parse_arg_value(cli.matches.values[name][1])
                  ELSE VArray([i \in 1..Len(cli.matches.values[name]) |->
                                  parse_arg_value(cli.matches.values[name][i])])

C13_Witness ==
    /\ pc = "clap_read" /\ cli_result.ok
    /\ ArgLogLevel \in DOMAIN cli.arg_mapping
    /\ Lookup(cli_result.val, <<<<"l","o","g","g","i","n","g">>, <<"l","e","v","e","l">>>>) = VString(<<"d","e","b","u","g">>)
    /\ Lookup(cli_result.val, <<<<"v","a","l","u","e","s">>>>) = VArray(<<VBool(TRUE), VString(<<"x">>), VBool(TRUE)>>)

C14_WitnessUnsupplied ==
    /\ pc = "clap_read" /\ cli_result.ok
    /\ ArgConfig \notin DOMAIN cli.matches.values
    /\ ArgLogLevel \in DOMAIN cli.matches.values

(***************************************************************************)
(* The file provider as a state machine: a provider over one path, with a  *)
(* depth limit, and a file system where the path leads to nothing, to a    *)
(* directory or to a file; the provider is read once.                      *)
(***************************************************************************)
DeepLevels == 200

KA1 == <<"a">>
KB1 == <<"b">>
JOne == JInt(FALSE, <<1>>)

\* {"level1": {"level2": {"level3": {"level4": "too deep"}}}}
DocTooDeep ==
    JObject(<<"l","e","v","e","l","1">> :> JObject(<<"l","e","v","e","l","2">> :> JObject(<<"l","e","v","e","l","3">> :>
        JObject(<<"l","e","v","e","l","4">> :> JString(<<"t","o","o"," ","d","e","e","p">>)))))

\* a key one byte longer than the environment provider takes
LongKey == Pad(<<>>, "k", MaxKeyLen + 1)

\* documents a TOML or a JSON file can hold: the root is a table
TableDocs ==
    <<JObject(EmptyMap),
      JObject(KA1 :> JOne),
      JObject((KA1 :> JOne) @@ (KB1 :> JArray(<<>>))),
      JObject((KA1 :> JArray(<<JOne, JObject(KB1 :> JOne)>>)) @@ (KB1 :> JOne)),
      JObject((KA1 :> JOne) @@ (KB1 :> JObject(KA1 :> JObject(KB1 :> JArray(<<>>))))),
      DocTooDeep>>

\* documents a JSON file can hold
JsonDocs ==
    TableDocs \o <<JOne, JArray(<<>>), JArray(<<JArray(<<JArray(<<JNull>>)>>)>>),
                   JArrays(3, JNull), JArrays(DeepLevels, JOne),
                   JObject(KA1 :> JString(Value8193)),
                   JObject(LongKey :> JArray(<<JString(Value8192)>>))>>

DeepJson == Path("cwd", <<"d","e","e","p",".","j","s","o","n">>)
DeepToml == Path("cwd", <<"d","e","e","p",".","t","o","m","l">>)

\* what can be at the path of the provider: nothing, a directory, a file
\* that cannot be read, a file that does not parse, or a document
FilesAt(path, docs, i) ==
    IF i = -3 THEN EmptyMap
    ELSE IF i = -2 THEN path :> Directory
    ELSE IF i = -1 THEN path :> File(Unreadable)
    ELSE IF i = 0 THEN path :> File(Malformed)
    ELSE path :> File(Doc(docs[i]))

\* what Ini::load_from_str reads from an INI text: the sections in file
\* order, the keys before any section header being the section named None
IniDoc(sections) == [kind |-> "ini", value |-> sections]
IniSection(name, props) == [name |-> name, props |-> props]
General(props) == IniSection(None, props)
Section(name, props) == IniSection(Some(name), props)

IniSections ==
    <<General(<<>>),
      General(<<<<<<"a","p","p","_","n","a","m","e">>, <<"f","i","l","e","-","a","p","p">>>>, <<<<"l","o","g","_","l","e","v","e","l">>, <<"d","e","b","u","g">>>>>>),
      General(<<<<<<"p","o","r","t">>, <<"9","0","9","0">>>>, <<<<"p","o","r","t">>, <<"7","0","7","0">>>>>>),
      Section(<<"s","e","r","v","e","r">>, <<<<<<"h","o","s","t">>, <<"0",".","0",".","0",".","0">>>>, <<<<"p","o","r","t">>, <<"9","0","9","0">>>>>>),
      Section(<<"c","a","c","h","e">>, <<<<<<"e","n","a","b","l","e","d">>, <<"t","r","u","e">>>>, <<<<"t","t","l">>, <<"6","0","0">>>>>>),
      Section(<<"c","a","c","h","e">>, <<<<<<"e","n","a","b","l","e","d">>, <<"y","e","s">>>>, <<<<"r","a","t","i","o">>, <<"0",".","5">>>>>>),
      Section(<<"d","e","f","a","u","l","t">>, <<<<<<"e","n","a","b","l","e","d">>, <<"o","f","f">>>>, <<<<"m","o","d","e">>, <<"1">>>>>>),
      Section(<<"e","m","p","t","y">>, <<>>)>>

\* documents an INI file can hold: up to three of the sections, the keys
\* before any header coming first when there are some
IniDocs ==
    <<<<>>,
      <<IniSections[1]>>,
      <<IniSections[2]>>,
      <<IniSections[3]>>,
      <<IniSections[4]>>,
      <<IniSections[5]>>,
      <<IniSections[1], IniSections[4]>>,
      <<IniSections[1], IniSections[5]>>,
      <<IniSections[2], IniSections[4], IniSections[5]>>,
      <<IniSections[2], IniSections[6]>>,
      <<IniSections[2], IniSections[7]>>,
      <<IniSections[5], IniSections[6]>>,
      <<IniSections[1], IniSections[8], IniSections[7]>>,
      <<IniSections[3], IniSections[6], IniSections[4]>>>>

DeepIni == Path("cwd", <<"d","e","e","p",".","i","n","i">>)

IniFilesAt(path, i) ==
    IF i < 1 THEN FilesAt(path, <<>>, i) ELSE path :> File(IniDoc(IniDocs[i]))

\* the path of test_error_message_path_sanitization, and a JSON file next
\* to it
SecretKey == Path("cwd", <<"/","h","o","m","e","/","u","s","e","r","/",".","s","s","h","/","i","d","_","r","s","a">>)
SecretJson == Path("cwd", <<"/","h","o","m","e","/","u","s","e","r","/",".","s","s","h","/","i","d","_","r","s","a",".","j","s","o","n">>)

ParseDepths == {0, 1, 2, 3, 4, 32, DeepLevels}

\* LingoFileProvider::from_path(path, is_required, max_parse_depth)
FileProviders(path) ==
    {from_path(path, req, d).val : req \in BOOLEAN, d \in ParseDepths}

InitFile ==
    /\ \/ /\ file_provider \in FileProviders(SecretJson)
          /\ \E i \in -3..Len(TableDocs) : fs = FileSystem(TRUE, {}, FilesAt(SecretJson, TableDocs, i))
          /\ pc = "file" /\ file_result = None
       \/ /\ file_provider = None
          /\ \E i \in {-3, 0} : fs = FileSystem(TRUE, {}, FilesAt(SecretKey, <<>>, i))
          /\ \E req \in BOOLEAN, d \in ParseDepths : file_result = from_path(SecretKey, req, d)
          /\ pc = "file_failed"
       \/ /\ file_provider \in FileProviders(DeepIni)
          /\ \E i \in -3..Len(IniDocs) : fs = FileSystem(TRUE, {}, IniFilesAt(DeepIni, i))
          /\ pc = "file" /\ file_result = None
       \/ /\ file_provider \in FileProviders(DeepJson)
          /\ \E i \in -3..Len(JsonDocs) : fs = FileSystem(TRUE, {}, FilesAt(DeepJson, JsonDocs, i))
          /\ pc = "file" /\ file_result = None
       \/ /\ file_provider \in FileProviders(DeepToml)
          /\ \E i \in -3..Len(TableDocs) : fs = FileSystem(TRUE, {}, FilesAt(DeepToml, TableDocs, i))
          /\ pc = "file" /\ file_result = None
    /\ message = None /\ fs_calls = <<>> /\ specified = None
    /\ args = None /\ clap_matches = None /\ config_file_paths = <<>> /\ result = None
    /\ CoerceIdle /\ InsertIdle /\ EnvIdle /\ MergeIdle /\ ClapIdle

\* provider.read_and_parse()
ReadAndParse ==
    /\ pc = "file"
    /\ file_result' = read_and_parse(fs, file_provider)
    /\ fs_calls' = reader_calls(fs, file_provider)
    /\ pc' = "file_read"
    /\ UNCHANGED <<file_provider, message, specified, coerceVars, insertVars, envVars,
                   mergeVars, loadVars, clapVars>>

\* format!("{}", error) on the error of from_path or of read_and_parse, in a
\* debug build or in a release build
Display ==
    /\ pc \in {"file_read", "file_failed"}
    /\ ~file_result.ok
    /\ \E debug_assertions \in BOOLEAN :
          message' = [debug_assertions |-> debug_assertions,
                      text |-> to_string(file_result.err, MaxDepthOf(file_provider),
                                         debug_assertions)]
    /\ pc' = "displayed"
    /\ UNCHANGED <<file_provider, file_result, pathVars, coerceVars, insertVars, envVars,
                   mergeVars, loadVars, clapVars>>

NextFile == ReadAndParse \/ Display

SpecFile == InitFile /\ [][NextFile]_vars

(***************************************************************************)
(* Claims about the file provider (checked under SpecFile)                 *)
(***************************************************************************)
\* the largest number of arrays and objects a value of the document lies in
RECURSIVE ValueDepth(_)
ValueDepth(value) ==
    IF value.j = "Arrays" THEN value.n + ValueDepth(value.v)
    ELSE IF value.j \in {"Array", "Object"}
    THEN MaxOf({0} \cup {1 + ValueDepth(value.v[k]) : k \in DOMAIN value.v})
    ELSE 0

\* the provider's path leads to a file whose parser reads a document from it
HoldsDocument ==
    /\ is_file(fs, file_provider.path)
    /\ fs.files[file_provider.path].content.kind = "doc"

Document == fs.files[file_provider.path].content.value

FailedWithDepthLimit ==
    ~file_result.ok /\ file_result.err = DepthLimit(file_provider.path)

\* C15: for every TOML or JSON document and every max_parse_depth d the file
\* provider fails with the depth-limit error when some value of the document
\* lies inside more than d arrays and objects, and succeeds otherwise; a JSON
\* document nested 200 levels deep fails so for d = 32 and succeeds for
\* d >= 200.
C15_DepthLimit ==
    (pc = "file_read" /\ HoldsDocument) =>
        IF ValueDepth(Document) > file_provider.max_parse_depth
        THEN FailedWithDepthLimit
        ELSE file_result.ok

\* the same for the documents the parser itself accepts
DepthLimitBelowParserLimit ==
    (pc = "file_read" /\ HoldsDocument /\ Nesting(Document) < SerdeRecursionLimit) =>
        IF ValueDepth(Document) > file_provider.max_parse_depth
        THEN FailedWithDepthLimit
        ELSE file_result.ok

\* the depth limit does decide: the document of test_depth_limit_enforcement
\* fails at 2 and is read at 4
DepthLimitReached ==
    /\ pc = "file_read" /\ HoldsDocument
    /\ Document.j = "Object" /\ DOMAIN Document.v = {<<"l","e","v","e","l","1">>}
    /\ file_provider.max_parse_depth = 2 /\ FailedWithDepthLimit

\* C16: when the file of a file provider does not exist, an optional provider
\* returns an empty Dict and no error, a required one returns
\* SpecifiedFileNotFound with the path; either way the content of the file is
\* not read.
C16_MissingFile ==
    (pc = "file_read" /\ ~is_file(fs, file_provider.path)) =>
        /\ IF file_provider.is_required
           THEN /\ ~file_result.ok
                /\ file_result.err.kind = "SpecifiedFileNotFound"
                /\ file_result.err.at = file_provider.path
           ELSE file_result.ok /\ file_result.val = VDict(EmptyMap)
        /\ \A i \in DOMAIN fs_calls : fs_calls[i].op # "read_content"

C16_Witness ==
    /\ pc = "file_read"
    /\ ~exists(fs, file_provider.path)
    /\ ~file_provider.is_required
    /\ file_result.ok /\ file_result.val = VDict(EmptyMap)
    /\ Len(fs_calls) = 1

(***************************************************************************)
(* Path resolution as a state machine: the candidates are resolved over a  *)
(* file system, then a path given explicitly is added; or the path is      *)
(* handed to the Path Security Validator alone.                            *)
(***************************************************************************)
\* what the configuration directories can hold: matching names, a directory
\* under a matching name, and names that match no pattern
SystemPool ==
    {Path("system", <<"c","o","n","f","i","g",".","t","o","m","l">>), Path("system", <<"A","p","p",".","i","n","i">>)}
UserPool ==
    {Path("user", <<"c","o","n","f","i","g",".","j","s","o","n">>), Path("user", <<"c","o","n","f","i","g",".","t","o","m","l">>), Path("user", <<"A","p","p",".","t","o","m","l">>),
     Path("user", <<"o","t","h","e","r",".","t","o","m","l">>)}
UserConfigIni == Path("user", <<"c","o","n","f","i","g",".","i","n","i">>)

\* the paths given explicitly (test_legitimate_paths_allowed,
\* test_config_file_path_security, test_add_specified_config_file_*)
SpecifiedPaths ==
    {Path("cwd", <<"c","o","n","f","i","g",".","t","o","m","l">>), Path("cwd", <<".","/","c","o","n","f","i","g","/","a","p","p",".","j","s","o","n">>),
     Path("cwd", <<"c","o","n","f","i","g","s","/","d","a","t","a","b","a","s","e",".","i","n","i">>), Path("cwd", <<"a","p","p","_","c","o","n","f","i","g",".","t","o","m","l">>),
     Path("cwd", <<"/","e","t","c","/","A","p","p","/","e","x","t","r","a",".","T","O","M","L">>), Path("cwd", <<"/","e","t","c","/","s","h","a","d","o","w">>),
     Path("cwd", <<".",".","/",".",".","/","e","t","c","/","p","a","s","s","w","d">>), Path("cwd", <<".",".","/","c","o","n","f","/","a","p","p",".","t","o","m","l">>),
     Path("cwd", <<"c","o","n","f","i","g",".","t","x","t">>), Path("cwd", <<"c","o","n","f","d","i","r",".","t","o","m","l">>),
     Path("cwd", <<".",".","\\",".",".","\\","h","o","s","t","s">>),
     Path("cwd", <<"a", NUL, ".","t","o","m","l">>)}

\* what the explicit paths lead to; app_config.toml, the "\\" path and the
\* path with the NUL byte lead to nothing
SpecifiedFiles ==
    [path \in {Path("cwd", <<"c","o","n","f","i","g",".","t","o","m","l">>), Path("cwd", <<".","/","c","o","n","f","i","g","/","a","p","p",".","j","s","o","n">>),
               Path("cwd", <<"c","o","n","f","i","g","s","/","d","a","t","a","b","a","s","e",".","i","n","i">>), Path("cwd", <<"/","e","t","c","/","A","p","p","/","e","x","t","r","a",".","T","O","M","L">>),
               Path("cwd", <<"/","e","t","c","/","s","h","a","d","o","w">>), Path("cwd", <<".",".","/",".",".","/","e","t","c","/","p","a","s","s","w","d">>),
               Path("cwd", <<".",".","/","c","o","n","f","/","a","p","p",".","t","o","m","l">>), Path("cwd", <<"c","o","n","f","i","g",".","t","x","t">>)}
        |-> File(Doc(DocUser))]
    @@ (Path("cwd", <<"c","o","n","f","d","i","r",".","t","o","m","l">>) :> Directory)

DirFiles(S) == [path \in S |-> File(Doc(DocUser))]

PathFileSystemsOf(d) ==
    {FileSystem(TRUE, d, SpecifiedFiles @@ DirFiles(S) @@ ini) :
        S \in SUBSET ({path \in SystemPool : "system" \in d} \cup {path \in UserPool : "user" \in d}),
        ini \in IF "user" \in d THEN {EmptyMap, UserConfigIni :> Directory, UserConfigIni :> File(Doc(DocUser))}
                ELSE {EmptyMap}}

PathFileSystems ==
    {FileSystem(FALSE, {}, SpecifiedFiles)}
        \cup UNION {PathFileSystemsOf(d) : d \in SUBSET {"system", "user"}}

InitPaths ==
    /\ pc = "paths"
    /\ fs \in PathFileSystems
    /\ specified \in SpecifiedPaths
    /\ config_file_paths = <<>> /\ result = None /\ fs_calls = <<>>
    /\ args = None /\ clap_matches = None
    /\ CoerceIdle /\ InsertIdle /\ EnvIdle /\ MergeIdle /\ ClapIdle /\ FileIdle

\* let mut config_files = resolve_config_files(&app_meta), an Err leaving the
\* list empty
ResolveFiles ==
    /\ pc = "paths"
    /\ IF resolve_config_files(fs, AppName).ok
       THEN config_file_paths' = resolve_config_files(fs, AppName).val /\ UNCHANGED result
       ELSE result' = resolve_config_files(fs, AppName) /\ UNCHANGED config_file_paths
    /\ pc' = "resolved"
    /\ UNCHANGED <<fs, args, clap_matches, specified, fs_calls, coerceVars, insertVars,
                   envVars, mergeVars, clapVars, fileVars>>

\* add_specified_config_file(&mut config_files, path)
AddSpecified ==
    /\ pc = "resolved"
    /\ IF add_specified_config_file(fs, config_file_paths, specified).ok
       THEN /\ config_file_paths' = add_specified_config_file(fs, config_file_paths, specified).val
            /\ result' = Ok(None)
       ELSE /\ result' = add_specified_config_file(fs, config_file_paths, specified)
            /\ UNCHANGED config_file_paths
    /\ fs_calls' = specified_file_checks(fs, specified)
    /\ pc' = "added"
    /\ UNCHANGED <<fs, args, clap_matches, specified, coerceVars, insertVars,
                   envVars, mergeVars, clapVars, fileVars>>

\* validate_path_security(&path)
ValidatePathSecurity ==
    /\ pc = "paths"
    /\ result' = validate_path_security(specified)
    /\ pc' = "validated"
    /\ UNCHANGED <<fs, args, clap_matches, config_file_paths, specified, fs_calls, coerceVars,
                   insertVars, envVars, mergeVars, clapVars, fileVars>>

NextPaths == ResolveFiles \/ AddSpecified \/ ValidatePathSecurity

SpecPaths == InitPaths /\ [][NextPaths]_vars

(***************************************************************************)
(* Claims about path resolution (checked under SpecPaths)                  *)
(***************************************************************************)
EndsWith(s, suffix) ==
    Len(suffix) <= Len(s) /\ Drop(s, Len(s) - Len(suffix)) = suffix

\* the names resolve_config_files looks for
MatchingNames ==
    {stem \o <<".">> \o ext : stem \in {<<"c","o","n","f","i","g">>, AppName}, ext \in {Toml, Json, Ini}}

\* the regular files with a matching name in the configuration directories
\* that exist
MatchingFiles ==
    {path \in DOMAIN fs.files :
        /\ path.dir \in fs.dirs \cap {"system", "user"}
        /\ path.name \in MatchingNames
        /\ fs.files[path].is_file}

\* the place of a candidate in the order of increasing priority
DirRank(path) == IF path.dir = "system" THEN 0 ELSE 1
StemRank(path) == IF Take(path.name, 7) = <<"c","o","n","f","i","g",".">> THEN 0 ELSE 1
ExtRank(path) ==
    IF EndsWith(path.name, Toml) THEN 0 ELSE IF EndsWith(path.name, Json) THEN 1 ELSE 2
Rank(path) == 6 * DirRank(path) + 3 * StemRank(path) + ExtRank(path)

\* C19: resolve_config_files returns exactly the existing regular files named
\* config.{toml,json,ini} or <app-name>.{toml,json,ini} in the configuration
\* directories that exist, every entry with is_required = false, in the order
\* of increasing priority: system before user, in a directory config.* before
\* <app-name>.*, and toml, json, ini.
C19_ResolvedCandidates ==
    (pc = "resolved" /\ result = None) =>
        /\ \A i \in DOMAIN config_file_paths :
              /\ config_file_paths[i].path \in MatchingFiles
              /\ ~config_file_paths[i].is_required
              /\ EndsWith(config_file_paths[i].path.name,
                          <<".">> \o config_file_paths[i].file_type)
        /\ \A path \in MatchingFiles :
              \E i \in DOMAIN config_file_paths : config_file_paths[i].path = path
        /\ \A i, j \in DOMAIN config_file_paths :
              i < j => Rank(config_file_paths[i].path) < Rank(config_file_paths[j].path)

C19_Witness ==
    /\ pc = "resolved" /\ result = None
    /\ Len(config_file_paths) = 5
    /\ UserConfigIni \in DOMAIN fs.files /\ ~fs.files[UserConfigIni].is_file
    /\ Path("user", <<"o","t","h","e","r",".","t","o","m","l">>) \in DOMAIN fs.files

\* C17: an explicit path with a parent-directory segment is rejected with
\* SecurityViolation, nothing is added to the candidates, and no existence
\* check or read on the path comes before the rejection.
C17_TraversalRejectedFirst ==
    (pc = "added" /\ HasTraversal(specified.name)) =>
        /\ ~result.ok
        /\ result.err.kind = "SecurityViolation"
        /\ fs_calls = <<>>
        /\ \A i \in DOMAIN config_file_paths : config_file_paths[i].path # specified

C18_WitnessRelative ==
    /\ pc = "validated"
    /\ specified = Path("cwd", <<".","/","c","o","n","f","i","g","/","a","p","p",".","j","s","o","n">>)
    /\ result.ok

\* the entry add_specified_config_file appends for the path
AppendedEntry(entry) ==
    /\ entry.path = specified
    /\ entry.is_required
    /\ entry.file_type \in {Toml, Json, Ini}
    /\ EndsWith(to_lowercase(specified.name), <<".">> \o entry.file_type)

\* C20: add_specified_config_file, when it succeeds, leaves the candidates it
\* found unchanged and appends exactly one entry, the last, required and of
\* the type of the extension; when it fails (SpecifiedFileNotFound for a
\* missing path or one that is not a file, UnsupportedFormat for an
\* extension it does not know, SecurityViolation) it returns the error and
\* leaves the candidates unchanged.
C20_AddSpecifiedFrame ==
    [][(pc = "resolved" /\ pc' = "added") =>
          IF result'.ok
          THEN /\ Len(config_file_paths') = Len(config_file_paths) + 1
               /\ SubSeq(config_file_paths', 1, Len(config_file_paths)) = config_file_paths
               /\ AppendedEntry(config_file_paths'[Len(config_file_paths')])
          ELSE /\ config_file_paths' = config_file_paths
               /\ result'.err.kind \in {"SpecifiedFileNotFound", "UnsupportedFormat",
                                        "SecurityViolation"}
               /\ result'.err.kind = "SpecifiedFileNotFound" <=> ~is_file(fs, specified)
               /\ result'.err.at = specified]_vars

C20_Witness ==
    /\ pc = "added" /\ result.ok
    /\ Len(config_file_paths) = 4
    /\ specified = Path("cwd", <<"/","e","t","c","/","A","p","p","/","e","x","t","r","a",".","T","O","M","L">>)
    /\ config_file_paths[4] = ConfigFilePath(specified, Toml, TRUE)

C20_WitnessFailure ==
    /\ pc = "added" /\ ~result.ok
    /\ result.err.kind = "UnsupportedFormat"
    /\ Len(config_file_paths) = 3


(***************************************************************************)
(* Claims about INI files (checked under SpecFile)                         *)
(***************************************************************************)
\* the provider's path leads to a file Ini::load_from_str reads
HoldsIni ==
    /\ is_file(fs, file_provider.path)
    /\ fs.files[file_provider.path].content.kind = "ini"

IniDocument == fs.files[file_provider.path].content.value

IniKeys(section) == {section.props[j][1] : j \in DOMAIN section.props}

\* the keys that come before any section header
SectionLessKeys(ini) ==
    UNION {IniKeys(ini[i]) : i \in {x \in DOMAIN ini : ini[x].name.tag = "None"}}

SectionNames(ini) == {ini[i].name.v : i \in {x \in DOMAIN ini : ini[x].name.tag = "Some"}}

\* the keys of the sections with this name
KeysOfSection(ini, name) ==
    UNION {IniKeys(ini[i]) :
              i \in {x \in DOMAIN ini : ini[x].name.tag = "Some" /\ ini[x].name.v = name}}

\* C21: when an INI file is parsed, every key before any section header is
\* placed at the root of the resulting Dict under its own name and every
\* named section becomes one level of Dict nesting keyed by the section name;
\* no other nesting is produced.
C21_IniSectionLessKeysAtRoot ==
    (pc = "file_read" /\ HoldsIni) =>
        /\ file_result.ok
        /\ IsDict(file_result.val)
        /\ DOMAIN file_result.val.v =
              SectionLessKeys(IniDocument) \cup SectionNames(IniDocument)
        /\ \A k \in SectionLessKeys(IniDocument) \ SectionNames(IniDocument) :
              ~IsDict(file_result.val.v[k])
        /\ \A s \in SectionNames(IniDocument) :
              /\ IsDict(file_result.val.v[s])
              /\ DOMAIN file_result.val.v[s].v \subseteq KeysOfSection(IniDocument, s)
              /\ \A k \in DOMAIN file_result.val.v[s].v : ~IsDict(file_result.val.v[s].v[k])

\* what parse_ini does with the keys before any section header: they go
\* one level down, under the key "default"
IniSectionLessKeysUnderDefault ==
    (pc = "file_read" /\ HoldsIni /\ SectionLessKeys(IniDocument) # {}
        /\ <<"d","e","f","a","u","l","t">> \notin SectionNames(IniDocument)) =>
        /\ file_result.ok
        /\ DOMAIN file_result.val.v = {<<"d","e","f","a","u","l","t">>} \cup SectionNames(IniDocument)
        /\ DOMAIN file_result.val.v[<<"d","e","f","a","u","l","t">>].v = SectionLessKeys(IniDocument)

IniSectionLessKeysRead ==
    /\ pc = "file_read" /\ HoldsIni
    /\ IniDocument = <<IniSections[2]>>
    /\ file_result = Ok(VDict(<<"d","e","f","a","u","l","t">> :> VDict((<<"a","p","p","_","n","a","m","e">> :> VString(<<"f","i","l","e","-","a","p","p">>))
                                                 @@ (<<"l","o","g","_","l","e","v","e","l">> :> VString(<<"d","e","b","u","g">>)))))

SameValue(a, b) == a.tag = b.tag /\ a = b

\* the value is the section 4.2 coercion of a raw value the document gives
\* to the key
IsCoerced(ini, key, value) ==
    \E i \in DOMAIN ini : \E j \in DOMAIN ini[i].props :
        /\ ini[i].props[j][1] = key
        /\ SameValue(value, parse_env_value(ini[i].props[j][2]))

\* C22: every leaf the file provider stores for an INI file is the section
\* 4.2 coercion of its raw value, the one applied to environment and CLI
\* strings (yes/on/1 give Bool(true), no/off/0 Bool(false), integers Int).
C22_IniLeavesCoerced ==
    (pc = "file_read" /\ HoldsIni /\ file_result.ok) =>
        \A k \in DOMAIN file_result.val.v :
            IF IsDict(file_result.val.v[k])
            THEN \A k2 \in DOMAIN file_result.val.v[k].v :
                     IsCoerced(IniDocument, k2, file_result.val.v[k].v[k2])
            ELSE IsCoerced(IniDocument, k, file_result.val.v[k])

\* what parse_ini stores: every leaf is a String, the raw value unchanged
IniLeavesAreRawStrings ==
    (pc = "file_read" /\ HoldsIni) =>
        /\ file_result.ok
        /\ \A k \in DOMAIN file_result.val.v :
              /\ IsDict(file_result.val.v[k])
              /\ \A k2 \in DOMAIN file_result.val.v[k].v :
                    \E i \in DOMAIN IniDocument : \E j \in DOMAIN IniDocument[i].props :
                        /\ IniDocument[i].props[j][1] = k2
                        /\ file_result.val.v[k].v[k2] = VString(IniDocument[i].props[j][2])

IniBooleanReadAsString ==
    /\ pc = "file_read" /\ HoldsIni
    /\ IniDocument = <<IniSections[5]>>
    /\ file_result = Ok(VDict(<<"c","a","c","h","e">> :> VDict((<<"e","n","a","b","l","e","d">> :> VString(<<"t","r","u","e">>))
                                               @@ (<<"t","t","l">> :> VString(<<"6","0","0">>)))))

(***************************************************************************)
(* Claims about error messages (checked under SpecFile)                    *)
(***************************************************************************)
\* the path the error is about: the provider's, or the one from_path refused
ErrorPath == file_result.err.at

\* what comes before the last "/" of the path
DirectoryPart(path) == Take(to_string_lossy(path), LastIndexOf(to_string_lossy(path), "/") - 1)

HasDirectoryPart(path) == LastIndexOf(to_string_lossy(path), "/") > 1

ShowsDirectory == FirstMatch(message.text, DirectoryPart(ErrorPath)) # 0

ShowsFileName == FirstMatch(message.text, file_name(ErrorPath)) # 0

\* the error of a release build has been displayed, for a path that has a
\* directory part
ReleaseMessage ==
    /\ pc = "displayed"
    /\ ~message.debug_assertions
    /\ HasDirectoryPart(ErrorPath)

\* C23: in a non-debug build no message of a path-carrying error (file read,
\* file parse, depth limit, specified file not found, unsupported format)
\* contains the directory part of the path; only the file name is shown.
C23_NoDirectoryInReleaseMessages ==
    ReleaseMessage => (~ShowsDirectory /\ ShowsFileName)

\* the errors whose Display goes through sanitize_path_for_display show the
\* file name alone in a release build, and the whole path in a debug build
SanitizedKinds == {"FileParse", "SpecifiedFileNotFound", "UnsupportedFormat"}

SanitizedErrorsHideDirectory ==
    (pc = "displayed" /\ HasDirectoryPart(ErrorPath)
        /\ file_result.err.kind \in SanitizedKinds) =>
        /\ ShowsFileName
        /\ ShowsDirectory <=> message.debug_assertions

\* a release build shows /home/user/.ssh in the message of a read error and
\* of a depth-limit error
ReadErrorShowsDirectory ==
    /\ ReleaseMessage
    /\ file_result.err.kind = "FileReadError"
    /\ message.text = <<"F","a","i","l","e","d"," ","t","o"," ","r","e","a","d"," ","f","i","l","e"," ","/","h","o","m","e","/","u","s","e","r","/",".","s","s","h","/","i","d","_","r","s","a",".","j","s","o","n",":"," ","P","e","r","m","i","s","s","i","o","n"," ","d","e","n","i","e","d"," ","(","o","s"," ","e","r","r","o","r"," ","1","3",")">>

DepthLimitShowsDirectory ==
    /\ ReleaseMessage
    /\ file_result.err.kind = "Internal"
    /\ message.text = <<"I","n","t","e","r","n","a","l"," ","Q","u","a","n","t","u","m"," ","C","o","n","f","i","g"," ","e","r","r","o","r",":"," ","C","o","n","f","i","g","u","r","a","t","i","o","n"," ","p","a","r","s","i","n","g"," ","d","e","p","t","h"," ","l","i","m","i","t"," ","(","2",")"," ","e","x","c","e","e","d","e","d"," ","i","n"," ","f","i","l","e",":"," ","/","h","o","m","e","/","u","s","e","r","/",".","s","s","h","/","i","d","_","r","s","a",".","j","s","o","n">>

NotFoundHidesDirectory ==
    /\ ReleaseMessage
    /\ file_result.err.kind = "SpecifiedFileNotFound"
    /\ message.text = <<"S","p","e","c","i","f","i","e","d"," ","c","o","n","f","i","g","u","r","a","t","i","o","n"," ","f","i","l","e"," ","n","o","t"," ","f","o","u","n","d",":"," ","<","s","a","n","i","t","i","z","e","d",">","/","i","d","_","r","s","a",".","j","s","o","n">>

(***************************************************************************)
(* Claims about size limits (checked under SpecFile)                       *)
(***************************************************************************)
\* no key of the tree is longer than MaxKeyLen and no string of it longer
\* than MaxValueLen
RECURSIVE WithinSizeLimits(_)
WithinSizeLimits(value) ==
    IF value.tag = "Dict"
    THEN \A k \in DOMAIN value.v : Len(k) <= MaxKeyLen /\ WithinSizeLimits(value.v[k])
    ELSE IF value.tag = "Array"
    THEN \A i \in DOMAIN value.v : WithinSizeLimits(value.v[i])
    ELSE IF value.tag = "String" THEN Len(value.v) <= MaxValueLen
    ELSE TRUE

\* C24: in every tree a provider produces no key and no string value exceeds
\* the size limits (256 bytes for a key, 8192 for a value); an input over a
\* limit makes the provider fail instead of being passed through.
C24_TreesWithinSizeLimits ==
    (pc = "file_read" /\ file_result.ok) => WithinSizeLimits(file_result.val)

\* the file provider hands on a string of 8193 bytes, and a key of 257
OversizedStringRead ==
    /\ pc = "file_read"
    /\ file_result = Ok(VDict(KA1 :> VString(Value8193)))

OversizedKeyRead ==
    /\ pc = "file_read"
    /\ file_result = Ok(VDict(LongKey :> VArray(<<VString(Value8192)>>)))

\* the tree of the environment provider is within the limits: a variable over
\* a limit fails the read (checked under SpecEnv)
EnvTreeWithinSizeLimits ==
    (pc = "env_read" /\ env_result.ok) => WithinSizeLimits(VDict(env_result.val))

(***************************************************************************)
(* Claims about absent files and directories (checked under SpecLoad)      *)
(***************************************************************************)
ResolvedFiles == resolve_config_files(fs, AppName)

\* the configuration of a load that merges no file at all: the environment
\* provider, then the CLI provider
EnvAndCliOnly ==
    extract(figment_merge(
                figment_merge(figment_new, env_data(with_prefix(AppPrefix), environ, env_order)),
                clap_data(with_common_mappings(clap_matches))))

\* C25: path resolution fails with ConfigDirNotFound only when no
\* configuration directory can be determined; directories that hold no
\* matching file give an empty candidate list; and a load whose resolution
\* finds nothing (ConfigDirNotFound and NoConfigFilesFoundInDir included)
\* still merges the environment and the command line.
C25_AbsentFilesAreNotAnError ==
    /\ (~ResolvedFiles.ok /\ ResolvedFiles.err.kind = "ConfigDirNotFound") => ~fs.project_dirs
    /\ (fs.project_dirs /\ fs.dirs # {} /\ MatchingFiles = {}) => ResolvedFiles = Ok(<<>>)
    /\ (pc = "done" /\ args.valid /\ ~ExplicitGiven /\ DiscoveredFiles = <<>>) =>
          result = EnvAndCliOnly

C25_Witness ==
    /\ pc = "done" /\ ~ExplicitGiven
    /\ ~fs.project_dirs
    /\ ResolvedFiles.err.kind = "ConfigDirNotFound"
    /\ DOMAIN environ = {<<"A","P","P","_","L","O","G","G","I","N","G","_","_","L","E","V","E","L">>}
    /\ ArgLogLevel \in DOMAIN args.values
    /\ result = Ok(KLogging :> VDict(KLevel :> VString(<<"w","a","r","n">>)))

C25_WitnessNoDirectory ==
    /\ pc = "done" /\ ~ExplicitGiven
    /\ fs.project_dirs /\ fs.dirs = {}
    /\ ResolvedFiles.err.kind = "NoConfigFilesFoundInDir"
    /\ DOMAIN environ = {<<"A","P","P","_","L","O","G","G","I","N","G","_","_","L","E","V","E","L">>}
    /\ args.valid /\ ArgLogLevel \notin DOMAIN args.values
    /\ result = Ok(KLogging :> VDict(KLevel :> VString(<<"d","e","b","u","g">>)))

C25_WitnessEmptyDirectory ==
    /\ pc = "done" /\ ~ExplicitGiven /\ args.valid
    /\ fs.dirs = {"user"} /\ MatchingFiles = {}
    /\ ResolvedFiles = Ok(<<>>)
    /\ result.ok

(***************************************************************************)
(* Claims about the logging level (checked under SpecLoad)                 *)
(***************************************************************************)
KLogLevel == <<"l","o","g","_","l","e","v","e","l">>

\* the environment sets <PREFIX>LOG_LEVEL and the command line --log-level
LogLevelFromBoth ==
    /\ <<"A","P","P","_","L","O","G","_","L","E","V","E","L">> \in DOMAIN environ
    /\ args.valid /\ ArgLogLevel \in DOMAIN args.values

\* C26: when the logging level is given both by the environment variable
\* <PREFIX>LOG_LEVEL and by the option --log-level, the log_level of the
\* loaded configuration is the value of the command line: both address the
\* same key and CLI overrides ENV.
C26_CliLogLevelOverridesEnv ==
    (Loaded /\ LogLevelFromBoth) =>
        /\ KLogLevel \in DOMAIN result.val
        /\ result.val[KLogLevel] = parse_arg_value(args.values[ArgLogLevel][1])

\* what the load does: the variable sets the key log_level, the option the
\* key logging.level, and log_level keeps the value of the environment
LogLevelKeptFromEnv ==
    (Loaded /\ LogLevelFromBoth) =>
        /\ result.val[KLogLevel] = parse_env_value(environ[<<"A","P","P","_","L","O","G","_","L","E","V","E","L">>])
        /\ IsDict(result.val[KLogging])
        /\ result.val[KLogging].v[KLevel] = parse_arg_value(args.values[ArgLogLevel][1])

LogLevelFromEnvLoaded ==
    /\ Loaded /\ LogLevelFromBoth
    /\ DOMAIN environ = {<<"A","P","P","_","L","O","G","_","L","E","V","E","L">>}
    /\ result = Ok((KLogLevel :> VString(<<"i","n","f","o">>))
                   @@ (KLogging :> VDict(KLevel :> VString(<<"w","a","r","n">>))))

(***************************************************************************)
(* Claims about the depth of the trees (checked under SpecFile)            *)
(***************************************************************************)
\* the largest number of Dicts and Arrays a value of the tree lies in
RECURSIVE TreeDepth(_)
TreeDepth(value) ==
    IF value.tag \in {"Dict", "Array"}
    THEN MaxOf({0} \cup {1 + TreeDepth(value.v[k]) : k \in DOMAIN value.v})
    ELSE 0

\* C27: every tree a provider builds has nesting depth at most
\* max_parse_depth, a deeper input being rejected while the tree is built.
C27_TreesWithinParseDepth ==
    (pc = "file_read" /\ file_result.ok) =>
        TreeDepth(file_result.val) <= file_provider.max_parse_depth

\* the trees read from TOML and JSON files are within the limit
ConvertedTreesWithinParseDepth ==
    (pc = "file_read" /\ file_result.ok /\ file_provider.format # Ini) =>
        TreeDepth(file_result.val) <= file_provider.max_parse_depth

\* an INI file with a section is read into a tree of depth 2 by a provider
\* whose max_parse_depth is 1
IniDeeperThanLimit ==
    /\ pc = "file_read" /\ HoldsIni
    /\ file_provider.max_parse_depth = 1
    /\ file_result = Ok(VDict(<<"c","a","c","h","e">> :> VDict((<<"e","n","a","b","l","e","d">> :> VString(<<"t","r","u","e">>))
                                               @@ (<<"t","t","l">> :> VString(<<"6","0","0">>)))))

(***************************************************************************)
(* Claims about the order of enumeration and about variables without the   *)
(* prefix (checked under SpecEnv)                                          *)
(***************************************************************************)
\* the outcome of the read had the variables been enumerated in this order
OutcomeIn(order) == read_env_vars(provider, environ, order)

SameOutcome(r1, r2) == r1.ok = r2.ok /\ r1 = r2

\* C28: the outcome of one read of the environment provider (the tree, or
\* the error) is a function of the set of variables: every order of
\* enumeration gives the same outcome, also when two variables map to the
\* same path or the path of one is a prefix of the path of the other.
C28_OutcomeIndependentOfOrder ==
    pc = "env_read" =>
        \A order \in Orders(DOMAIN environ) : SameOutcome(OutcomeIn(order), env_result)

\* APP_A=7 and APP_a=on: the variable enumerated last stays
CaseCollisionDependsOnOrder ==
    /\ pc = "env_read"
    /\ DOMAIN environ = {<<"A","P","P","_","A">>, <<"A","P","P","_","a">>}
    /\ env_result = Ok(<<"a">> :> VBool(TRUE))
    /\ OutcomeIn(<<<<"A","P","P","_","a">>, <<"A","P","P","_","A">>>>) = Ok(<<"a">> :> VInt(FALSE, <<7>>))

\* APP_A=7 and APP_A__B__C=3.14: a key conflict in one order, {a: 7} in the
\* other
PrefixPathDependsOnOrder ==
    /\ pc = "env_read"
    /\ DOMAIN environ = {<<"A","P","P","_","A">>, <<"A","P","P","_","A","_","_","B","_","_","C">>}
    /\ env_result = Ok(<<"a">> :> VInt(FALSE, <<7>>))
    /\ ~OutcomeIn(<<<<"A","P","P","_","A">>, <<"A","P","P","_","A","_","_","B","_","_","C">>>>).ok
    /\ OutcomeIn(<<<<"A","P","P","_","A">>, <<"A","P","P","_","A","_","_","B","_","_","C">>>>).err.kind = "Internal"

\* the environment without the variables whose name lacks the prefix
PrefixedOnly ==
    [key \in {k \in DOMAIN environ : starts_with(k, provider.prefix)} |-> environ[key]]

\* C29: a variable whose name does not start with the prefix has no influence
\* on the read: the outcome (the tree, or the error) is one the read has on
\* the environment without such variables, whatever their keys and values.
C29_UnprefixedHaveNoInfluence ==
    pc = "env_read" =>
        \E order \in Orders(DOMAIN PrefixedOnly) :
            SameOutcome(read_env_vars(provider, PrefixedOnly, order), env_result)

\* the same when every variable without the prefix passes the validation of
\* keys and values
ValidUnprefixedHaveNoInfluence ==
    (pc = "env_read"
        /\ \A key \in DOMAIN environ \ DOMAIN PrefixedOnly :
              validate_env_key(key).ok /\ validate_env_value(environ[key]).ok) =>
        \E order \in Orders(DOMAIN PrefixedOnly) :
            SameOutcome(read_env_vars(provider, PrefixedOnly, order), env_result)

\* OTHER_BAD, a variable without the prefix whose value holds a NUL byte,
\* fails the read of an environment that has no other fault
UnprefixedFailsTheRead ==
    /\ pc = "env_read"
    /\ DOMAIN environ = {<<"A","P","P","_","A">>, <<"O","T","H","E","R","_","B","A","D">>}
    /\ env_result = Err(ValidationError("Environment variable value contains null bytes"))
    /\ read_env_vars(provider, PrefixedOnly, <<<<"A","P","P","_","A">>>>) = Ok(<<"a">> :> VInt(FALSE, <<7>>))

(***************************************************************************)
(* read_and_parse next to another process: the candidate list has been     *)
(* built, so the file of the provider is there; the provider asks          *)
(* reader.exists and then reader.read_content, and between any two of its  *)
(* steps another process may remove the file.                              *)
(***************************************************************************)
\* std::fs::read_to_string on a path that leads to no file
ReadToStringNotFound(path) == Err(Error("FileReadError", "", path))

InitRace ==
    /\ pc = "exists"
    /\ \/ /\ file_provider \in FileProviders(DeepIni)
          /\ \E i \in -1..Len(IniDocs) : fs = FileSystem(TRUE, {}, IniFilesAt(DeepIni, i))
       \/ /\ file_provider \in FileProviders(DeepJson)
          /\ \E i \in -1..Len(JsonDocs) : fs = FileSystem(TRUE, {}, FilesAt(DeepJson, JsonDocs, i))
       \/ /\ file_provider \in FileProviders(DeepToml)
          /\ \E i \in -1..Len(TableDocs) : fs = FileSystem(TRUE, {}, FilesAt(DeepToml, TableDocs, i))
    /\ config_file_paths =
          <<ConfigFilePath(file_provider.path, file_provider.format, file_provider.is_required)>>
    /\ file_result = None /\ message = None /\ fs_calls = <<>> /\ specified = None
    /\ args = None /\ clap_matches = None /\ result = None
    /\ CoerceIdle /\ InsertIdle /\ EnvIdle /\ MergeIdle /\ ClapIdle

\* another process removes the file
RemoveFile ==
    /\ pc \in {"exists", "read_content"}
    /\ exists(fs, file_provider.path)
    /\ fs' = [fs EXCEPT !.files = [path \in DOMAIN fs.files \ {file_provider.path} |->
                                       fs.files[path]]]
    /\ fs_calls' = Append(fs_calls, ReaderCall("remove", file_provider.path))
    /\ UNCHANGED <<pc, args, clap_matches, config_file_paths, result, file_provider,
                   file_result, message, specified,
                   coerceVars, insertVars, envVars, mergeVars, clapVars>>

\* read_and_parse: if !self.reader.exists(&self.path) { .. }
ReaderExists ==
    /\ pc = "exists"
    /\ fs_calls' = Append(fs_calls, ReaderCall("exists", file_provider.path))
    /\ IF is_file(fs, file_provider.path)
       THEN pc' = "read_content" /\ UNCHANGED file_result
       ELSE /\ file_result' = read_and_parse(fs, file_provider)
            /\ pc' = "file_read"
    /\ UNCHANGED <<loadVars, file_provider, message, specified,
                   coerceVars, insertVars, envVars, mergeVars, clapVars>>

\* read_and_parse: self.reader.read_content(&self.path)?, then parse_content
ReaderReadContent ==
    /\ pc = "read_content"
    /\ fs_calls' = Append(fs_calls, ReaderCall("read_content", file_provider.path))
    /\ file_result' = IF is_file(fs, file_provider.path)
                      THEN read_and_parse(fs, file_provider)
                      ELSE ReadToStringNotFound(file_provider.path)
    /\ pc' = "file_read"
    /\ UNCHANGED <<loadVars, file_provider, message, specified,
                   coerceVars, insertVars, envVars, mergeVars, clapVars>>

NextRace == RemoveFile \/ ReaderExists \/ ReaderReadContent

SpecRace == InitRace /\ [][NextRace]_vars

(***************************************************************************)
(* Claims about a file removed during the read (checked under SpecRace)    *)
(***************************************************************************)
\* the file was removed before its content was read
RemovedBeforeRead ==
    /\ pc = "file_read"
    /\ \E i \in DOMAIN fs_calls : fs_calls[i].op = "remove"

MissingFileOutcome ==
    IF file_provider.is_required
    THEN ~file_result.ok /\ file_result.err = Error("SpecifiedFileNotFound", "", file_provider.path)
    ELSE file_result.ok /\ file_result.val = VDict(EmptyMap)

\* C30: when the file of a candidate is removed by another process after the
\* candidate list was built and before its content is read, the outcome
\* depends on is_required alone: an optional candidate gives an empty Dict, a
\* required one SpecifiedFileNotFound, however the removal falls between the
\* existence check and the read.
C30_RemovedFileOutcome ==
    RemovedBeforeRead => MissingFileOutcome

\* a removal that comes before the existence check has that outcome
RemovedBeforeCheckOutcome ==
    (RemovedBeforeRead /\ fs_calls[1].op = "remove") => MissingFileOutcome

\* a removal between the existence check and the read fails the read of an
\* optional file
OptionalFileReadFails ==
    /\ RemovedBeforeRead
    /\ ~file_provider.is_required
    /\ fs_calls = <<ReaderCall("exists", file_provider.path),
                    ReaderCall("remove", file_provider.path),
                    ReaderCall("read_content", file_provider.path)>>
    /\ file_result = Err(Error("FileReadError", "", file_provider.path))
=============================================================================
